---- MODULE Spec2Model ----
(***************************************************************************)
(* Position builder of spx_options: the leg list of the window and its     *)
(* netting on add / edit (ui/position_builder.py), and the lazy-bot and    *)
(* smart-bot totals (position/pricing.py).                                 *)
(*                                                                         *)
(* Conventions.                                                            *)
(*  - A date is an integer YYYYMMDD, so that date order is integer order.  *)
(*  - A strike is a float with at most one binary fraction digit, held as  *)
(*    an integer count of half points (8001 is the strike 4000.5).         *)
(*  - Python lists are sequences; a Python row index r is r + 1 here.      *)
(*  - Optional[date] is a sequence of length 0 (None) or 1.                *)
(*  - What a handler reads from the widgets (calendar selection, line      *)
(*    edits, combo boxes, spin boxes, edited cells) is an input of its     *)
(*    action.                                                              *)
(*  - The text of a table cell or line edit is a record [t, v]: t = "num"  *)
(*    with the number v, or a token that float() / fromisoformat() reject. *)
(***************************************************************************)
EXTENDS Integers, Sequences, FiniteSets, TLC

VARIABLES
    expirations,          \* PositionBuilderWindow._expirations_set
    legs,                 \* PositionBuilderWindow._legs
    lastOp,               \* history: the last handler that reached the legs, and how it ended
    netAdded,             \* history: per key, signed contracts asked for so far
    resolved,             \* pricing: the list of (leg, bid, ask) under test
    lazy,                 \* pricing: lazy_bot_total(resolved) once computed
    smart,                \* pricing: smart_bot_total(resolved) once computed
    pc,                   \* pricing: "idle", or "input", "lazy", "done" as the totals are computed
    request,              \* get_leg_quotes: its arguments [expiration, legs]
    source,               \* get_leg_quotes: what supplier.get_chain does, [error, quotes]
    chain,                \* get_leg_quotes: the local chain
    get_chain_calls,      \* history: calls of supplier.get_chain made by get_leg_quotes
    result,               \* get_leg_quotes: how the call ended, [kind, error, value]
    lookup,               \* get_quotes_for_legs: the legs and the supplier's data
    quotes,               \* get_quotes_for_legs: [stage, default, ibkr], the lists returned
    curve,                \* pnl_at_expiry_curve: its arguments [legs, cost_basis, s_min, s_max, steps]
    curve_out,            \* pnl_at_expiry_curve: the list out
    curve_pc,             \* pnl_at_expiry_curve: "idle", "call", "loop", "returned"
    leg_index,            \* get_leg_quotes: the number of legs its loop has taken
    curve_i,              \* pnl_at_expiry_curve: the indices range(steps + 1) has yielded
    request_queue,        \* _IBWorker._request_queue: items [item, id], oldest first
    refresh,              \* the call of request_refresh under way: [pc, legs, drained]
    worker,               \* _IBWorker.run: [pc, id], pc "connecting", "waiting", "busy", "exited"
    calls,                \* history: [requests, stops, first_stop], the calls made so far
    table,                \* window: bid and ask cell texts of legs_table, one entry per row
    totals,               \* window: the lazy/smart labels, <<>> while they show the dash
    status,               \* window: _connected, the kind of text in the status line, last event
    taken,                \* worker: <<legs>> while a request is taken and its signal not handled
    db,                   \* repository: [rows, case_sensitive, query, history, inserted], table, last query, quotes inserted
    collector,            \* collector: position, arguments, last cycle and the calls logged so far
    conn,                 \* the window's worker reference, buttons, worker threads and signals
    added                 \* history: the legs asked of _on_add_leg, in the order asked

vars == <<expirations, legs, lastOp, netAdded,
          resolved, lazy, smart, pc,
          request, source, chain, get_chain_calls, result,
          lookup, quotes, curve, curve_out, curve_pc, leg_index, curve_i,
          request_queue, refresh, worker, calls,
          table, totals, status, taken, db, collector, conn, added>>

windowVars == <<expirations, legs, lastOp, netAdded>>
viewVars == <<table, totals, status, taken>>
storeVars == <<db, collector>>
connVars == <<conn>>
historyVars == <<added>>
pricingVars == <<resolved, lazy, smart, pc>>
serviceVars == <<request, source, chain, get_chain_calls, result, leg_index>>
lookupVars == <<lookup, quotes>>
curveVars == <<curve, curve_out, curve_pc, curve_i>>
workerVars == <<request_queue, refresh, worker, calls>>

---------------------------------------------------------------------------
(* Bounds of the model.                                                    *)

\* Most contracts (sum of the multipliers) a position holds in the model; every
\* leg has at least one contract, so this also bounds the number of legs.
MaxContracts == 2

\* Most (leg, bid, ask) tuples in a list handed to the totals.
MaxResolved == 3

\* Significant bits of a float of the model (a Python float has 53): a result that
\* needs more is rounded, ties to even.
MantissaBits == 3

---------------------------------------------------------------------------
(* Input domains.                                                          *)

\* Expiration dates the supplier lists.
SupplierExpirations == {20260320, 20260619}
\* Dates the user can click or type: the expirations and a date that is none.
CalendarDates == SupplierExpirations \cup {20260321}
\* Strikes typed by the user, in half points: 4000 and 4000.5.
StrikeValues == {8000, 8001}
Rights == {"C", "P"}
BUY == "Buy"
SELL == "Sell"
LegActions == {BUY, SELL}

Num(v) == [t |-> "num", v |-> v]
BadText == [t |-> "bad", v |-> 0]
EmptyText == [t |-> "empty", v |-> 0]
InfText == [t |-> "inf", v |-> 0]

\* Texts typed into a strike field.
StrikeTexts == {Num(s) : s \in StrikeValues} \cup {BadText}
\* Texts typed into a Mult cell, numbers in halves: "2", "2.5", "0", "-1", "abc", "", "inf".
MultTexts == {Num(4), Num(5), Num(0), Num(2), Num(-2), BadText, EmptyText, InfText}
\* Texts typed into an Expiration cell (a date as v).
ExpirationTexts == {Num(d) : d \in CalendarDates} \cup {BadText}
TypeTexts == {"Call", "Put", "call", "put", "X"}
ActionTexts == {"Buy", "Sell", "buy", "sell", "X"}

---------------------------------------------------------------------------
(* PositionLeg and its helpers.                                            *)

PositionLeg(exp, strike, right, action, mult) ==
    [expiration |-> exp, strike |-> strike, right |-> right,
     action |-> action, multiplier |-> mult]

\* str.upper() on the one-letter rights.
Upper(r) == CASE r = "c" -> "C" [] r = "p" -> "P" [] OTHER -> r

\* str.lower() on the words a Type or Action cell can hold.
Lower(s) ==
    CASE s = "Call" -> "call" [] s = "Put" -> "put"
      [] s = "Buy" -> "buy" [] s = "Sell" -> "sell"
      [] s = "X" -> "x" [] OTHER -> s

is_call(leg) == Upper(leg.right) = "C"

LegKey(leg) == <<leg.expiration, leg.strike, Upper(leg.right)>>

Keys == {<<e, s, r>> : e \in SupplierExpirations, s \in StrikeValues, r \in Rights}

\* Mutant: the action is ignored, every leg counts as bought.
SignedNet_Unsigned(action, mult) == mult

\* existing.multiplier if existing.action == BUY else -existing.multiplier
SignedNet(action, mult) == IF action = BUY THEN mult ELSE 0 - mult

Abs(n) == IF n < 0 THEN 0 - n ELSE n
Max2(a, b) == IF a >= b THEN a ELSE b
Min2(a, b) == IF a <= b THEN a ELSE b

\* list.pop(i) for an index in range.
Pop(s, i) == SubSeq(s, 1, i - 1) \o SubSeq(s, i + 1, Len(s))

\* s[i] = x
SetAt(s, i, x) == [s EXCEPT ![i] = x]

---------------------------------------------------------------------------
(* _leg_sort_key / _sort_legs: list.sort(key=...) is a stable sort.        *)

\* Mutant: the strike is compared before the right.
LegSortKey_StrikeFirst(leg) ==
    <<leg.expiration, leg.strike, IF Upper(leg.right) = "C" THEN 0 ELSE 1>>

\* (leg.expiration, 0 if leg.right.upper() == "C" else 1, leg.strike)
LegSortKey(leg) == <<leg.expiration, IF Upper(leg.right) = "C" THEN 0 ELSE 1, leg.strike>>

\* Python tuple comparison a < b on sort keys.
KeyLess(a, b) ==
    \/ a[1] < b[1]
    \/ a[1] = b[1] /\ a[2] < b[2]
    \/ a[1] = b[1] /\ a[2] = b[2] /\ a[3] < b[3]

\* Insert x behind every element whose key is not greater (keeps equal keys in order).
InsertSorted(s, x) ==
    LET after == {i \in 1..Len(s) : KeyLess(LegSortKey(x), LegSortKey(s[i]))}
        at == IF after = {} THEN Len(s) + 1
              ELSE CHOOSE i \in after : \A j \in after : i <= j
    IN SubSeq(s, 1, at - 1) \o <<x>> \o SubSeq(s, at, Len(s))

RECURSIVE SortLegs(_)
SortLegs(s) ==
    IF s = <<>> THEN <<>>
    ELSE InsertSorted(SortLegs(SubSeq(s, 1, Len(s) - 1)), s[Len(s)])

---------------------------------------------------------------------------
(* Text conversions.                                                       *)

\* f"{strike:.0f}": round to whole points, ties to even; the text of that integer.
FormatStrike(strike) ==
    LET whole == strike \div 2
    IN IF strike % 2 = 0 THEN Num(strike)
       ELSE IF whole % 2 = 0 THEN Num(2 * whole) ELSE Num(2 * (whole + 1))

\* float(text.strip().replace(",", "")): [ok, v]; ok = FALSE is ValueError.
ParseFloat(text) ==
    IF text.t = "num" THEN [ok |-> TRUE, v |-> text.v] ELSE [ok |-> FALSE, v |-> 0]

\* int(x) of a number held in halves: truncation towards zero.
TruncHalves(h) == IF h >= 0 THEN h \div 2 ELSE 0 - ((0 - h) \div 2)

\* The Mult cell: int(float(text or "1")), ValueError -> 1, then below 1 -> 1.
\* float("inf") converts, int() of it raises OverflowError, which is not caught.
ParseMult(text) ==
    CASE text.t = "inf" -> [raised |-> "OverflowError", v |-> 0]
      [] text.t = "bad" -> [raised |-> "none", v |-> 1]
      [] text.t = "empty" -> [raised |-> "none", v |-> 1]
      [] OTHER -> [raised |-> "none",
                   v |-> IF TruncHalves(text.v) < 1 THEN 1 ELSE TruncHalves(text.v)]

\* The cells _redraw_legs_table_impl writes for a leg (columns 0..4).
RowTexts(leg) ==
    [exp |-> Num(leg.expiration),
     strike |-> FormatStrike(leg.strike),
     type |-> IF is_call(leg) THEN "Call" ELSE "Put",
     action |-> leg.action,
     mult |-> Num(2 * leg.multiplier)]

\* _leg_from_table_row: [kind |-> "leg" | "none" | "raise", leg, raised].
NoLeg == PositionLeg(0, 0, "C", BUY, 1)
LegFromTableRow(row, exps) ==
    LET t == Lower(row.type)
        a == Lower(row.action)
        strike == ParseFloat(row.strike)
        m == ParseMult(row.mult)
        none == [kind |-> "none", leg |-> NoLeg, raised |-> "none"]
    IN IF row.exp.t # "num" THEN none
       ELSE IF row.exp.v \notin exps THEN none
       ELSE IF ~strike.ok THEN none
       ELSE IF t \notin {"call", "put"} THEN none
       ELSE IF a \notin {"buy", "sell"} THEN none
       ELSE IF m.raised # "none"
            THEN [kind |-> "raise", leg |-> NoLeg, raised |-> m.raised]
       ELSE [kind |-> "leg", raised |-> "none",
             leg |-> PositionLeg(row.exp.v, strike.v,
                                 IF t = "call" THEN "C" ELSE "P",
                                 IF a = "buy" THEN BUY ELSE SELL, m.v)]

---------------------------------------------------------------------------
(* Netting.  Each operator returns [legs, outcome]; a list index out of    *)
(* range ends it with outcome "IndexError" and the list as mutated so far. *)

Result(l, outcome) == [legs |-> l, outcome |-> outcome]
IndexError(l) == [legs |-> l, outcome |-> "IndexError"]

\* Rows of l (other than skip) whose key is (exp, strike, right).
Matches(l, exp, strike, right, skip) ==
    {i \in 1..Len(l) : /\ i # skip
                       /\ l[i].expiration = exp
                       /\ l[i].strike = strike
                       /\ Upper(l[i].right) = right}

FirstOf(S) == CHOOSE i \in S : \A j \in S : i <= j

\* Mutant: a leg of the same key is overwritten by the new leg instead of netted.
AddLeg_Overwrite(l, exp, strike, right, action, mult) ==
    LET found == Matches(l, exp, strike, right, 0)
    IN IF found # {}
       THEN Result(SortLegs(SetAt(l, FirstOf(found),
                                  PositionLeg(exp, strike, right, action, mult))), "merge")
       ELSE Result(SortLegs(Append(l, PositionLeg(exp, strike, right, action, mult))), "new")

\* Mutant: the appended leg is built without its multiplier (the dataclass default 1).
AddLeg_DefaultMult(l, exp, strike, right, action, mult) ==
    LET found == Matches(l, exp, strike, right, 0)
    IN IF found # {}
       THEN LET i == FirstOf(found)
                net == SignedNet(l[i].action, l[i].multiplier) + SignedNet(action, mult)
            IN IF net = 0 THEN Result(SortLegs(Pop(l, i)), "flat")
               ELSE Result(SortLegs(SetAt(l, i,
                              PositionLeg(exp, strike, right,
                                          IF net > 0 THEN BUY ELSE SELL, Abs(net)))), "merge")
       ELSE Result(SortLegs(Append(l, PositionLeg(exp, strike, right, action, 1))), "new")

\* _on_add_leg, lines 684-720: net with the first leg of the same key, else append.
AddLeg(l, exp, strike, right, action, mult) ==
    LET found == Matches(l, exp, strike, right, 0)
    IN IF found # {}
       THEN LET i == FirstOf(found)
                existing_net == SignedNet(l[i].action, l[i].multiplier)
                new_net == SignedNet(action, mult)
                net == existing_net + new_net
            IN IF net = 0 THEN Result(SortLegs(Pop(l, i)), "flat")
               ELSE IF net > 0
               THEN Result(SortLegs(SetAt(l, i, PositionLeg(exp, strike, right, BUY, net))),
                           "merge")
               ELSE Result(SortLegs(SetAt(l, i, PositionLeg(exp, strike, right, SELL, Abs(net)))),
                           "merge")
       ELSE Result(SortLegs(Append(l, PositionLeg(exp, strike, right, action, mult))), "new")

\* Mutant: the lower index is popped first, so the higher one has shifted.
PopBoth_MinFirst(l, row, j) ==
    LET hi == Max2(row, j)
        lo == Min2(row, j)
    IN IF lo \notin 1..Len(l) THEN IndexError(l)
       ELSE LET l1 == Pop(l, lo)
            IN IF hi \notin 1..Len(l1) THEN IndexError(l1)
               ELSE Result(SortLegs(Pop(l1, hi)), "flat")

\* The two pops of the net == 0 branch of an edit: pop(max(row, j)); pop(min(row, j)).
PopBoth(l, row, j) ==
    LET hi == Max2(row, j)
        lo == Min2(row, j)
    IN IF hi \notin 1..Len(l) THEN IndexError(l)
       ELSE LET l1 == Pop(l, hi)
            IN IF lo \notin 1..Len(l1) THEN IndexError(l1)
               ELSE Result(SortLegs(Pop(l1, lo)), "flat")

\* Mutant: the edited row is replaced without a search for the same key elsewhere.
EditLeg_NoMerge(l, row, new_leg) == Result(SortLegs(SetAt(l, row, new_leg)), "replace")

\* _on_edit_leg, lines 742-780: merge into another row of the same key, else replace.
EditLeg(l, row, new_leg) ==
    LET exp == new_leg.expiration
        strike == new_leg.strike
        right == Upper(new_leg.right)
        found == Matches(l, exp, strike, right, row)
    IN IF found # {}
       THEN LET j == FirstOf(found)
                existing_net == SignedNet(l[j].action, l[j].multiplier)
                new_net == SignedNet(new_leg.action, new_leg.multiplier)
                net == existing_net + new_net
            IN IF net = 0 THEN PopBoth(l, row, j)
               ELSE IF net > 0
               THEN Result(SortLegs(Pop(SetAt(l, j, PositionLeg(exp, strike, right, BUY, net)), row)),
                           "merge")
               ELSE Result(SortLegs(Pop(SetAt(l, j, PositionLeg(exp, strike, right, SELL, Abs(net))), row)),
                           "merge")
       ELSE Result(SortLegs(SetAt(l, row, new_leg)), "replace")

\* Mutant: on a flat net only the other row is popped, the edited row stays.
ApplyLegEdit_KeepRow(l, row, new_leg) ==
    LET exp == new_leg.expiration
        strike == new_leg.strike
        right == Upper(new_leg.right)
        found == Matches(l, exp, strike, right, row)
    IN IF found # {}
       THEN LET j == FirstOf(found)
                net == SignedNet(l[j].action, l[j].multiplier)
                       + SignedNet(new_leg.action, new_leg.multiplier)
            IN IF net = 0 THEN Result(SortLegs(Pop(l, j)), "flat")
               ELSE Result(SortLegs(Pop(SetAt(l, j,
                              PositionLeg(exp, strike, right,
                                          IF net > 0 THEN BUY ELSE SELL, Abs(net))), row)),
                           "merge")
       ELSE Result(SortLegs(SetAt(l, row, new_leg)), "replace")

\* _apply_leg_edit, lines 977-1003: the same policy, written again for the cell flow.
ApplyLegEdit(l, row, new_leg) ==
    LET exp == new_leg.expiration
        strike == new_leg.strike
        right == Upper(new_leg.right)
        found == Matches(l, exp, strike, right, row)
    IN IF found # {}
       THEN LET j == FirstOf(found)
                existing_net == SignedNet(l[j].action, l[j].multiplier)
                new_net == SignedNet(new_leg.action, new_leg.multiplier)
                net == existing_net + new_net
            IN IF net = 0 THEN PopBoth(l, row, j)
               ELSE IF net > 0
               THEN Result(SortLegs(Pop(SetAt(l, j, PositionLeg(exp, strike, right, BUY, net)), row)),
                           "merge")
               ELSE Result(SortLegs(Pop(SetAt(l, j, PositionLeg(exp, strike, right, SELL, Abs(net))), row)),
                           "merge")
       ELSE Result(SortLegs(SetAt(l, row, new_leg)), "replace")

---------------------------------------------------------------------------
(* The window: state after __init__ and one action per handler.            *)

WindowInit ==
    /\ expirations = {}
    /\ legs = <<>>
    /\ lastOp = [op |-> "init", outcome |-> "none"]
    /\ netAdded = [k \in Keys |-> 0]

RECURSIVE Contracts(_)
Contracts(l) == IF l = <<>> THEN 0 ELSE Abs(Head(l).multiplier) + Contracts(Tail(l))

\* The model explores positions of at most MaxContracts contracts.
WithinBounds(l) == Contracts(l) <= MaxContracts

Op(op, outcome) == [op |-> op, outcome |-> outcome]

\* History: the contracts a request asks for, +m for "Buy" and -m for "Sell".
Asked(action, mult) == IF action = "Buy" THEN mult ELSE 0 - mult

\* _on_expirations_loaded, lines 595-596: the worker delivered the expirations.
OnExpirationsLoaded ==
    /\ expirations' = SupplierExpirations
    /\ UNCHANGED <<legs, lastOp, netAdded>>

\* A handler that returned before it reached the legs.
Returned == UNCHANGED <<legs, lastOp, netAdded>>

\* _on_add_leg: the handler reads the calendar's selection (selected: None as <<>>,
\* else an available expiration), the strike text, the Type and Action combos and the
\* multiplier spin box.
OnAddLeg(selected, strikeText, typeText, actionText, mult) ==
    /\ UNCHANGED expirations
    /\ IF selected = <<>> \/ ~ParseFloat(strikeText).ok
       THEN Returned
       ELSE \E exp \in {selected[1]}, strike \in {ParseFloat(strikeText).v},
               right \in {IF typeText = "Call" THEN "C" ELSE "P"},
               action \in {IF actionText = "Buy" THEN BUY ELSE SELL} :
            \E r \in {AddLeg(legs, exp, strike, right, action, mult)} :
               /\ WithinBounds(r.legs)
               /\ legs' = r.legs
               /\ lastOp' = Op("add", r.outcome)
               /\ netAdded' = [netAdded EXCEPT
                                 ![<<exp, strike, right>>] = @ + Asked(action, mult)]

\* What the history variable records for an edit of row to new_leg: the edited
\* leg's contracts are withdrawn and the new leg's contracts are asked for.
NetAfterEdit(row, new_leg) ==
    LET cleared == [netAdded EXCEPT ![LegKey(legs[row])] = 0]
    IN [cleared EXCEPT ![LegKey(new_leg)] = @ + Asked(new_leg.action, new_leg.multiplier)]

\* _on_edit_leg: the dialog for the leg at row (row is in range: _on_edit_clicked),
\* accepted with the values of its fields.
OnEditLeg(row, exp, strikeText, typeText, actionText, mult) ==
    /\ row \in 1..Len(legs)
    /\ exp \in expirations
    /\ UNCHANGED expirations
    /\ IF ~ParseFloat(strikeText).ok
       THEN Returned
       ELSE \E new_leg \in {PositionLeg(exp, ParseFloat(strikeText).v,
                                        IF typeText = "Call" THEN "C" ELSE "P",
                                        IF actionText = "Buy" THEN BUY ELSE SELL, mult)} :
            \E r \in {EditLeg(legs, row, new_leg)} :
               /\ WithinBounds(r.legs)
               /\ legs' = r.legs
               /\ lastOp' = Op("edit", r.outcome)
               /\ netAdded' = NetAfterEdit(row, new_leg)

\* _on_leg_cell_changed: the user changed the cell col of row to text; the other
\* cells of the row are as the last redraw wrote them.
OnLegCellChanged(row, col, text) ==
    /\ row \in 1..Len(legs)
    /\ UNCHANGED expirations
    /\ \E parsed \in {LegFromTableRow([RowTexts(legs[row]) EXCEPT ![col] = text],
                                      expirations)} :
          IF parsed.kind = "none"
          THEN Returned
          ELSE IF parsed.kind = "raise"
          THEN /\ lastOp' = Op("cell", parsed.raised)
               /\ UNCHANGED <<legs, netAdded>>
          ELSE \E r \in {ApplyLegEdit(legs, row, parsed.leg)} :
               /\ WithinBounds(r.legs)
               /\ legs' = r.legs
               /\ lastOp' = Op("cell", r.outcome)
               /\ netAdded' = NetAfterEdit(row, parsed.leg)

\* _on_remove_clicked: pop the row of the clicked button (no sort).
OnRemoveClicked(row) ==
    /\ row \in 1..Len(legs)
    /\ legs' = Pop(legs, row)
    /\ lastOp' = Op("remove", "removed")
    /\ netAdded' = [netAdded EXCEPT ![LegKey(legs[row])] = 0]
    /\ UNCHANGED expirations

\* _on_clear_all_legs: nothing on an empty list, else clear it.
OnClearAllLegs ==
    /\ UNCHANGED expirations
    /\ IF legs = <<>>
       THEN Returned
       ELSE /\ legs' = <<>>
            /\ lastOp' = Op("clear", "cleared")
            /\ netAdded' = [k \in Keys |-> 0]

CellEdits ==
    {<<"exp", t>> : t \in ExpirationTexts} \cup {<<"strike", t>> : t \in StrikeTexts}
    \cup {<<"type", t>> : t \in TypeTexts} \cup {<<"action", t>> : t \in ActionTexts}
    \cup {<<"mult", t>> : t \in MultTexts}

WindowNext ==
    \/ OnExpirationsLoaded
    \/ \E sel \in {<<>>} \cup {<<d>> : d \in expirations}, st \in StrikeTexts,
          ty \in {"Call", "Put"}, ac \in {"Buy", "Sell"}, m \in 1..MaxContracts :
          OnAddLeg(sel, st, ty, ac, m)
    \/ \E row \in 1..Len(legs), e \in expirations, st \in StrikeTexts,
          ty \in {"Call", "Put"}, ac \in {"Buy", "Sell"}, m \in 1..MaxContracts :
          OnEditLeg(row, e, st, ty, ac, m)
    \/ \E row \in 1..Len(legs), ce \in CellEdits : OnLegCellChanged(row, ce[1], ce[2])
    \/ \E row \in 1..Len(legs) : OnRemoveClicked(row)
    \/ OnClearAllLegs

PricingIdle ==
    /\ resolved = <<>>
    /\ lazy = 0
    /\ smart = 0
    /\ pc = "idle"

\* Python's None, where a string or nothing is expected.
None == "None"

\* Optional[float]: <<>> is None, <<v>> the float v.
NoDelta == <<>>

NoResult == [kind |-> "none", error |-> None, value |-> <<>>]

\* No call of get_leg_quotes is under way.
ServiceIdle ==
    /\ request = [expiration |-> 0, legs |-> <<>>]
    /\ source = [error |-> None, quotes |-> <<>>]
    /\ chain = <<>>
    /\ get_chain_calls = 0
    /\ result = NoResult
    /\ leg_index = 0

\* No call of get_quotes_for_legs is under way.
LookupIdle ==
    /\ lookup = [legs |-> <<>>, known |-> {}, chains |-> <<>>, feed |-> "idle"]
    /\ quotes = [stage |-> "idle", default |-> <<>>, ibkr |-> <<>>, requests |-> <<>>]

\* No call of pnl_at_expiry_curve is under way.
CurveIdle ==
    /\ curve = [legs |-> <<>>, cost_basis |-> 0, s_min |-> 0, s_max |-> 0, steps |-> 1]
    /\ curve_out = <<>>
    /\ curve_pc = "idle"
    /\ curve_i = 0

\* No worker thread has been started.
WorkerIdle ==
    /\ request_queue = <<>>
    /\ refresh = [pc |-> "idle", legs |-> <<>>, drained |-> <<>>]
    /\ worker = [pc |-> "none", id |-> 0]
    /\ calls = [requests |-> 0, stops |-> 0, first_stop |-> <<>>]

\* The parts of the state that the specifications below do not all use.
NoTotals == <<>>

ViewIdle ==
    /\ table = <<>>
    /\ totals = NoTotals
    /\ status = [connected |-> FALSE, line |-> "ok", last |-> "none"]
    /\ taken = <<>>

StoreIdle ==
    /\ db = [rows |-> <<>>, case_sensitive |-> FALSE, query |-> <<>>, history |-> <<>>,
            inserted |-> <<>>]
    /\ collector = [pc |-> "idle"]

\* No leg has been asked of the netting.
AddedIdle == added = <<>>

ConnIdle ==
    conn = [ib_worker |-> <<>>, connected |-> FALSE, connect_btn |-> TRUE, load_exp_btn |-> TRUE,
            shown |-> FALSE, threads |-> <<>>, signals |-> <<>>]

otherVars == <<lookupVars, curveVars, workerVars, viewVars, storeVars, connVars, historyVars>>
OthersIdle == LookupIdle /\ CurveIdle /\ WorkerIdle /\ ViewIdle /\ StoreIdle /\ ConnIdle /\ AddedIdle

Init == WindowInit /\ PricingIdle /\ ServiceIdle /\ OthersIdle

Next == WindowNext /\ UNCHANGED <<pricingVars, serviceVars, otherVars>>

Spec == Init /\ [][Next]_vars

---------------------------------------------------------------------------
(* Floats.  A price is held as an integer count of half ticks; a quote is  *)
(* a whole number of ticks, so that the mid of two quotes is a number of   *)
(* the model.  Every arithmetic result is rounded to MantissaBits          *)
(* significant bits, ties to even, as IEEE 754 does with 53 bits.          *)

\* Distance between neighbouring floats at magnitude m.
RECURSIVE Spacing(_)
Spacing(m) == IF m < 2^MantissaBits THEN 1 ELSE 2 * Spacing(m \div 2)

\* The float nearest to the real number n, ties to the even mantissa.
RoundFloat(n) ==
    LET m == Abs(n)
        q == Spacing(m)
        lo == (m \div q) * q
        rest == m - lo
        nearest == IF 2 * rest < q THEN lo
                   ELSE IF 2 * rest > q THEN lo + q
                   ELSE IF (lo \div q) % 2 = 0 THEN lo ELSE lo + q
    IN IF n < 0 THEN 0 - nearest ELSE nearest

\* a + b, a * b and a / 2.0 on floats (the half of a float of whole ticks is exact).
FloatAdd(a, b) == RoundFloat(a + b)
FloatMul(a, b) == RoundFloat(a * b)
FloatHalf(a) == a \div 2

\* Python's (a or b): a if a is truthy (non-zero), else b.
Or(a, b) == IF a # 0 THEN a ELSE b

---------------------------------------------------------------------------
(* position/pricing.py.  An element of the list is <<leg, bid, ask>>.      *)

\* Mutant: a sold leg is priced at the ask.
leg_lazy_price_SellAtAsk(leg, bid, ask) ==
    LET mult == leg.multiplier
    IN IF leg.action = BUY THEN FloatMul(mult, ask) ELSE FloatMul(0 - mult, ask)

\* _leg_lazy_price: mult * ask for a Buy, -mult * bid otherwise.
leg_lazy_price(leg, bid, ask) ==
    LET mult == leg.multiplier
    IN IF leg.action = BUY THEN FloatMul(mult, ask) ELSE FloatMul(0 - mult, bid)

\* Mutant: the mid is the ask.
leg_smart_price_MidIsAsk(leg, bid, ask) ==
    LET mult == leg.multiplier
        mid == IF Or(bid, ask) # 0 THEN ask ELSE 0
    IN IF leg.action = BUY THEN FloatMul(mult, mid) ELSE FloatMul(0 - mult, mid)

\* _leg_smart_price: mid = (bid + ask) / 2.0 if (bid or ask) else 0.0; +-mult * mid.
leg_smart_price(leg, bid, ask) ==
    LET mult == leg.multiplier
        mid == IF Or(bid, ask) # 0 THEN FloatHalf(FloatAdd(bid, ask)) ELSE 0
    IN IF leg.action = BUY THEN FloatMul(mult, mid) ELSE FloatMul(0 - mult, mid)

\* Mutant: the last price of the list is left out of the sum.
RECURSIVE sum_SkipLast(_, _)
sum_SkipLast(start, prices) ==
    IF Len(prices) <= 1 THEN start
    ELSE sum_SkipLast(FloatAdd(start, Head(prices)), Tail(prices))

\* The builtin sum(iterable): start + x1 + x2 + ..., added from left to right.
RECURSIVE sum(_, _)
sum(start, prices) ==
    IF prices = <<>> THEN start
    ELSE sum(FloatAdd(start, Head(prices)), Tail(prices))

\* sum(_leg_lazy_price(leg, bid, ask) for leg, bid, ask in legs)
lazy_bot_total(l) ==
    sum(0, [i \in DOMAIN l |-> leg_lazy_price(l[i][1], l[i][2], l[i][3])])

\* sum(_leg_smart_price(leg, bid, ask) for leg, bid, ask in legs)
smart_bot_total(l) ==
    sum(0, [i \in DOMAIN l |-> leg_smart_price(l[i][1], l[i][2], l[i][3])])

\* The legs and quotes (bid, ask in half ticks) the lists are drawn from: one and
\* several contracts, Buy and Sell, two-sided, one-sided (bid 0) and absent (0/0) quotes.
QuotedLeg(action, mult, bid, ask) ==
    <<PositionLeg(20260320, 8000, "C", action, mult), bid, ask>>

QuotedLegs ==
    {QuotedLeg(BUY, 2, 2, 6), QuotedLeg(BUY, 1, 2, 6), QuotedLeg(BUY, 1, 0, 2),
     QuotedLeg(BUY, 3, 2, 4), QuotedLeg(BUY, 1, 0, 0),
     QuotedLeg(SELL, 1, 2, 6), QuotedLeg(SELL, 2, 6, 6), QuotedLeg(SELL, 1, 0, 2)}

RECURSIVE ListsUpTo(_)
ListsUpTo(n) ==
    IF n = 0 THEN {<<>>}
    ELSE LET shorter == ListsUpTo(n - 1)
         IN shorter \cup {Append(l, x) : l \in shorter, x \in QuotedLegs}

\* A caller holds a list of resolved legs and has computed no total yet.
PricingInput ==
    /\ resolved \in ListsUpTo(MaxResolved)
    /\ lazy = 0
    /\ smart = 0
    /\ pc = "input"

\* lazy = lazy_bot_total(resolved)
LazyBotTotal ==
    /\ pc = "input"
    /\ lazy' = lazy_bot_total(resolved)
    /\ pc' = "lazy"
    /\ UNCHANGED <<resolved, smart>>

\* smart = smart_bot_total(resolved)
SmartBotTotal ==
    /\ pc = "lazy"
    /\ smart' = smart_bot_total(resolved)
    /\ pc' = "done"
    /\ UNCHANGED <<resolved, lazy>>

PricingNext ==
    \/ LazyBotTotal /\ UNCHANGED <<windowVars, serviceVars, otherVars>>
    \/ SmartBotTotal /\ UNCHANGED <<windowVars, serviceVars, otherVars>>

PricingInit == WindowInit /\ PricingInput /\ ServiceIdle /\ OthersIdle

SpecPricing == PricingInit /\ [][PricingNext]_vars

---------------------------------------------------------------------------
(* position/builder_service.py: get_leg_quotes.                            *)

\* suppliers/base.py OptionQuote (volume and open_interest are not used here).
OptionQuote(exp, strike, right, bid, ask, last, delta) ==
    [expiration |-> exp, strike |-> strike, right |-> right,
     bid |-> bid, ask |-> ask, last |-> last, delta |-> delta]

\* Mutant: the right of the quote is compared as it is written.
quote_key_CaseSensitive(q) == <<q.strike, q.right>>

\* _quote_key: (q.strike, q.right.upper())
quote_key(q) == <<q.strike, Upper(q.right)>>

\* _find_quote: the first quote of the chain whose key is (leg.strike, leg.right.upper()),
\* as a sequence of length 1, or <<>> for None.
find_quote(ch, leg) ==
    LET key == <<leg.strike, Upper(leg.right)>>
        found == {i \in DOMAIN ch : quote_key(ch[i]) = key}
    IN IF found = {} THEN <<>> ELSE <<ch[FirstOf(found)]>>

\* Mutant: a leg without a quote is left out of the list.
resolve_leg_SkipMissing(ch, leg) ==
    LET q == find_quote(ch, leg)
    IN IF q # <<>> THEN <<<<leg, q[1].bid, q[1].ask>>>> ELSE <<>>

\* The body of the loop of get_leg_quotes: what is appended to resolved for a leg.
resolve_leg(ch, leg) ==
    LET q == find_quote(ch, leg)
    IN IF q # <<>> THEN <<<<leg, q[1].bid, q[1].ask>>>> ELSE <<<<leg, 0, 0>>>>

\* Mutant: a failure of the source is swallowed and the chain taken as empty.
after_get_chain_Suppressed(reply) ==
    [pc |-> "resolve", chain |-> IF reply.error # None THEN <<>> ELSE reply.quotes,
     result |-> NoResult]

\* chain = supplier.get_chain(expiration): an exception of the supplier is not caught
\* and ends the call.
after_get_chain(reply) ==
    IF reply.error # None
    THEN [pc |-> "raised", chain |-> <<>>,
          result |-> [kind |-> "raised", error |-> reply.error, value |-> <<>>]]
    ELSE [pc |-> "resolve", chain |-> reply.quotes, result |-> NoResult]

\* Mutant: the two totals are returned in the other order.
return_value_Swapped(r, lz, sm) == <<r, sm, lz>>

\* return (resolved, lazy, smart)
return_value(r, lz, sm) == <<r, lz, sm>>

\* Legs handed to get_leg_quotes: two of the first expiration that the chain below can
\* quote, one of the other expiration written with a lower-case right, and a Put.
ServiceLegs ==
    {PositionLeg(20260320, 8000, "C", BUY, 1), PositionLeg(20260320, 8200, "C", SELL, 1),
     PositionLeg(20260619, 8000, "c", BUY, 2), PositionLeg(20260320, 8200, "P", SELL, 1)}

\* Quotes a chain of expiration exp can hold (bid, ask in half ticks): 4000C 3/4,
\* 4100C 1/2 and a second quote of 4000C written with a lower-case right.
ChainQuotes(exp) ==
    {OptionQuote(exp, 8000, "C", 6, 8, 0, NoDelta), OptionQuote(exp, 8200, "C", 2, 4, 0, NoDelta),
     OptionQuote(exp, 8000, "c", 2, 6, 0, NoDelta)}

\* Most quotes in a chain of the model.
MaxChain == 2

RECURSIVE SeqsUpTo(_, _)
SeqsUpTo(S, n) ==
    IF n = 0 THEN {<<>>}
    ELSE LET shorter == SeqsUpTo(S, n - 1)
         IN shorter \cup {Append(l, x) : l \in shorter, x \in S}

SourceErrors == {"ConnectionError", "TimeoutError"}

\* get_leg_quotes(supplier, expiration, legs) is called; the supplier will either
\* return a chain of quotes of that expiration or raise.
ServiceInit ==
    /\ request \in [expiration : SupplierExpirations, legs : SeqsUpTo(ServiceLegs, MaxResolved)]
    /\ source \in [error : {None}, quotes : SeqsUpTo(ChainQuotes(request.expiration), MaxChain)]
                  \cup [error : SourceErrors, quotes : {<<>>}]
    /\ chain = <<>>
    /\ get_chain_calls = 0
    /\ result = NoResult
    /\ leg_index = 0
    /\ resolved = <<>>
    /\ lazy = 0
    /\ smart = 0
    /\ pc = "call"

\* Line 42: chain = supplier.get_chain(expiration)
GetChain ==
    /\ pc = "call"
    /\ get_chain_calls' = get_chain_calls + 1
    /\ \E next \in {after_get_chain(source)} :
          /\ pc' = next.pc
          /\ chain' = next.chain
          /\ result' = next.result
    /\ UNCHANGED <<request, source, leg_index, resolved, lazy, smart>>

\* Lines 44-49: one turn of the loop over the legs (for leg in legs).
ResolveLeg ==
    /\ pc = "resolve"
    /\ leg_index < Len(request.legs)
    /\ leg_index' = leg_index + 1
    /\ resolved' = resolved \o resolve_leg(chain, request.legs[leg_index + 1])
    /\ UNCHANGED <<request, source, chain, get_chain_calls, result, lazy, smart, pc>>

\* The loop is over; lines 50-51 compute the totals (LazyBotTotal, SmartBotTotal).
ResolveDone ==
    /\ pc = "resolve"
    /\ leg_index >= Len(request.legs)
    /\ pc' = "input"
    /\ UNCHANGED <<serviceVars, resolved, lazy, smart>>

\* Line 52: return (resolved, lazy, smart)
ReturnQuotes ==
    /\ pc = "done"
    /\ result' = [kind |-> "returned", error |-> None,
                  value |-> return_value(resolved, lazy, smart)]
    /\ pc' = "returned"
    /\ UNCHANGED <<request, source, chain, get_chain_calls, leg_index, resolved, lazy, smart>>

ServiceNext ==
    \/ GetChain /\ UNCHANGED <<windowVars, otherVars>>
    \/ ResolveLeg /\ UNCHANGED <<windowVars, otherVars>>
    \/ ResolveDone /\ UNCHANGED <<windowVars, otherVars>>
    \/ LazyBotTotal /\ UNCHANGED <<windowVars, serviceVars, otherVars>>
    \/ SmartBotTotal /\ UNCHANGED <<windowVars, serviceVars, otherVars>>
    \/ ReturnQuotes /\ UNCHANGED <<windowVars, otherVars>>

ServiceSpecInit == WindowInit /\ ServiceInit /\ OthersIdle

SpecService == ServiceSpecInit /\ [][ServiceNext]_vars

---------------------------------------------------------------------------
(* get_quotes_for_legs: suppliers/base.py (default) and suppliers/ibkr.py. *)
(* The supplier's data is a chain of quotes per expiration; expirations    *)
(* outside lookup.known have no chain (get_chain returns []).  For the     *)
(* IBKR override the same data is what Interactive Brokers holds: a        *)
(* contract qualifies when the chain of its expiration has its key, its    *)
(* ticker carries that quote, and lookup.feed says how a ticker reports    *)
(* its numbers.                                                            *)

\* The quote of a leg without a contract: OptionQuote(..., bid=0.0, ask=0.0, last=0.0).
no_quote(leg) == OptionQuote(leg.expiration, leg.strike, leg.right, 0, 0, 0, NoDelta)

\* supplier.get_chain(exp)
get_chain(data, exp) == IF exp \in data.known THEN data.chains[exp] ELSE <<>>

\* Mutant: a leg without a quote gets no entry.
quote_for_leg_SkipMissing(data, leg) ==
    LET ch == get_chain(data, leg.expiration)
        found == {i \in DOMAIN ch : ch[i].strike = leg.strike
                                    /\ Upper(ch[i].right) = Upper(leg.right)}
    IN IF found # {} THEN <<ch[FirstOf(found)]>> ELSE <<>>

\* base.py 56-76: what the default implementation appends for one leg.
quote_for_leg(data, leg) ==
    LET ch == get_chain(data, leg.expiration)
        found == {i \in DOMAIN ch : ch[i].strike = leg.strike
                                    /\ Upper(ch[i].right) = Upper(leg.right)}
    IN IF found # {} THEN <<ch[FirstOf(found)]>> ELSE <<no_quote(leg)>>

\* base.py 48-77: OptionsChainSupplier.get_quotes_for_legs.
RECURSIVE get_quotes_for_legs(_, _)
get_quotes_for_legs(data, ls) ==
    IF ls = <<>> THEN <<>>
    ELSE quote_for_leg(data, Head(ls)) \o get_quotes_for_legs(data, Tail(ls))

\* A number as a ticker reports it: Num(v), NaN, or Num(-2) for IB's -1 ("no data")
\* (-1.0 is -2 half ticks).
NaN == [t |-> "nan", v |-> 0]
MinusOne == Num(-2)

\* ibkr.py 14-22: _safe_float, None / -1 / NaN / inf give the default 0.0.
safe_float(raw) == IF raw.t = "num" /\ raw # MinusOne THEN raw.v ELSE 0

\* The ticker Interactive Brokers returns for a quote q of its book.
Ticker(q, feed) ==
    [contract |-> [expiration |-> q.expiration, strike |-> q.strike, right |-> Upper(q.right)],
     bid |-> IF feed = "closed" THEN MinusOne ELSE Num(q.bid),
     ask |-> IF feed = "closed" THEN NaN ELSE Num(q.ask),
     last |-> Num(q.last),
     greeks |-> IF feed = "greeks" THEN <<Num(1)>> ELSE IF feed = "closed" THEN <<MinusOne>> ELSE <<>>]

\* ibkr.py 260-265: the delta of a ticker, None without greeks or with delta -1.
delta_of(t) ==
    IF t.greeks = <<>> THEN NoDelta
    ELSE IF t.greeks[1] = MinusOne THEN NoDelta ELSE <<safe_float(t.greeks[1])>>

\* ibkr.py 266-278: the quote built from a ticker.
quote_of_ticker(t) ==
    OptionQuote(t.contract.expiration, t.contract.strike, t.contract.right,
                safe_float(t.bid), safe_float(t.ask), safe_float(t.last), delta_of(t))

\* ibkr.py 216-232: one contract (expiration, strike, right) per leg whose
\* expiration has a chain, in the order of the legs.
leg_contracts(data, ls) ==
    LET with_chain == SelectSeq(ls, LAMBDA leg : leg.expiration \in data.known)
    IN [k \in DOMAIN with_chain |->
          <<with_chain[k].expiration, with_chain[k].strike, Upper(with_chain[k].right)>>]

\* The quotes Interactive Brokers holds for a contract.
ib_book(data, key) ==
    SelectSeq(get_chain(data, key[1]),
              LAMBDA q : <<q.expiration, q.strike, Upper(q.right)>> = key)

\* ibkr.py 240: qualifyContracts returns the contracts Interactive Brokers knows.
qualify_contracts(data, contracts) ==
    SelectSeq(contracts, LAMBDA key : ib_book(data, key) # <<>>)

\* Mutant: a ticker request per contract.
req_tickers_ibkr_PerContract(data, ls) ==
    LET qualified == qualify_contracts(data, leg_contracts(data, ls))
    IN [k \in DOMAIN qualified |-> <<qualified[k]>>]

\* ibkr.py 211-244: the reqTickers calls of one get_quotes_for_legs, each with the
\* contracts it asks for.
req_tickers_ibkr(data, ls) ==
    LET qualified == qualify_contracts(data, leg_contracts(data, ls))
    IN IF ls = <<>> \/ leg_contracts(data, ls) = <<>> \/ qualified = <<>> THEN <<>>
       ELSE <<qualified>>

\* ibkr.py 208-279: IBKROptionsSupplier.get_quotes_for_legs.
get_quotes_for_legs_ibkr(data, ls) ==
    LET \* 216-232
        contracts == leg_contracts(data, ls)
        \* 234-237
        out == [i \in DOMAIN ls |-> no_quote(ls[i])]
        \* 240, 244: the contracts that qualify, and their tickers
        qualified == qualify_contracts(data, contracts)
        tickers == [k \in DOMAIN qualified |->
                      Ticker(ib_book(data, qualified[k])[1], data.feed)]
        \* 248-253: ticker_by_key, a later ticker of a key replaces an earlier one
        has(key) == {k \in DOMAIN tickers :
                        <<tickers[k].contract.expiration, tickers[k].contract.strike,
                          Upper(tickers[k].contract.right)>> = key}
        by_key(key) == tickers[CHOOSE k \in has(key) : \A j \in has(key) : j <= k]
    IN IF ls = <<>> THEN <<>>
       ELSE IF contracts = <<>> THEN out
       ELSE IF qualified = <<>> THEN out
       ELSE [i \in DOMAIN ls |->
               LET key == <<ls[i].expiration, ls[i].strike, Upper(ls[i].right)>>
               IN IF has(key) = {} THEN out[i] ELSE quote_of_ticker(by_key(key))]

\* Chains a supplier holds for an expiration: 4000C 3/4 with 4100C 1/2, two quotes of
\* 4000C of which the first is written with a lower-case right, and the empty chain.
LookupChains(exp) ==
    {<<OptionQuote(exp, 8000, "C", 6, 8, 4, NoDelta), OptionQuote(exp, 8200, "C", 2, 4, 2, NoDelta)>>,
     <<OptionQuote(exp, 8000, "c", 2, 6, 4, NoDelta), OptionQuote(exp, 8000, "C", 6, 8, 4, NoDelta)>>,
     <<>>}

LookupInit ==
    /\ lookup \in {[legs |-> ls, known |-> kn, chains |-> ch, feed |-> fd] :
                     ls \in SeqsUpTo(ServiceLegs, MaxResolved),
                     kn \in {{}, {20260320}, SupplierExpirations},
                     ch \in {c \in [SupplierExpirations -> UNION {LookupChains(e) : e \in SupplierExpirations}] :
                                \A e \in SupplierExpirations : c[e] \in LookupChains(e)},
                     fd \in {"plain", "greeks", "closed"}}
    /\ quotes = [stage |-> "input", default |-> <<>>, ibkr |-> <<>>, requests |-> <<>>]

\* The default implementation is called with the legs.
GetQuotesForLegs ==
    /\ quotes.stage = "input"
    /\ quotes' = [quotes EXCEPT !.stage = "default",
                                !.default = get_quotes_for_legs(lookup, lookup.legs)]
    /\ UNCHANGED lookup

\* The IBKR override is called with the legs.
GetQuotesForLegsIBKR ==
    /\ quotes.stage = "default"
    /\ quotes' = [quotes EXCEPT !.stage = "done",
                                !.ibkr = get_quotes_for_legs_ibkr(lookup, lookup.legs),
                                !.requests = req_tickers_ibkr(lookup, lookup.legs)]
    /\ UNCHANGED lookup

LookupNext ==
    \/ GetQuotesForLegs /\ UNCHANGED <<windowVars, pricingVars, serviceVars, curveVars, workerVars, viewVars, storeVars, connVars, historyVars>>
    \/ GetQuotesForLegsIBKR /\ UNCHANGED <<windowVars, pricingVars, serviceVars, curveVars, workerVars, viewVars, storeVars, connVars, historyVars>>

LookupSpecInit ==
    /\ WindowInit /\ PricingIdle /\ ServiceIdle /\ LookupInit /\ CurveIdle /\ WorkerIdle
    /\ ViewIdle /\ StoreIdle /\ ConnIdle /\ AddedIdle

SpecLookup == LookupSpecInit /\ [][LookupNext]_vars

---------------------------------------------------------------------------
(* suppliers/ibkr.py, get_chain: the chain of one expiration, built from   *)
(* the tickers Interactive Brokers returns.  lookup holds what the         *)
(* supplier and IB know: whether the expiration has chain parameters, the  *)
(* strikes of these, the contracts IB qualifies and, per contract, the     *)
(* raw (bid, ask, last) of its ticker.                                     *)

\* Raw numbers of a ticker besides Num(v), NaN and Num(-2) for -1: None and the
\* two infinities.
NoValue == [t |-> "none", v |-> 0]
PosInf == [t |-> "inf", v |-> 0]
NegInf == [t |-> "-inf", v |-> 0]

\* One raw value of each class: None, NaN, +inf, -inf, the -1 sentinel, another
\* negative number (-2.5), zero and a positive number.
RawValues == <<NoValue, NaN, PosInf, NegInf, MinusOne, Num(-5), Num(0), Num(6)>>

\* The (bid, ask, last) of a ticker: three neighbours of RawValues, so that every
\* field meets every class.
RawTriples ==
    {<<RawValues[i], RawValues[(i % Len(RawValues)) + 1],
       RawValues[((i + 1) % Len(RawValues)) + 1]>> : i \in 1..Len(RawValues)}

\* ibkr.py 161-173: a call and a put contract per strike.
RECURSIVE chain_contracts(_)
chain_contracts(strikes) ==
    IF strikes = <<>> THEN <<>>
    ELSE <<[strike |-> Head(strikes), right |-> "C"], [strike |-> Head(strikes), right |-> "P"]>>
         \o chain_contracts(Tail(strikes))

\* ibkr.py 184-205: the quote built from a ticker of the chain.
chain_quote(data, contract) ==
    OptionQuote(data.expiration, safe_float(Num(contract.strike)), contract.right,
                safe_float(data.raw[contract][1]), safe_float(data.raw[contract][2]),
                safe_float(data.raw[contract][3]), NoDelta)

\* ibkr.py 148-206: IBKROptionsSupplier.get_chain.
get_chain_ibkr(data) ==
    LET contracts == chain_contracts(data.strikes)
        qualified == SelectSeq(contracts, LAMBDA c : c \in data.listed)
    IN IF ~data.has_chain THEN <<>>
       ELSE IF data.strikes = <<>> THEN <<>>
       ELSE IF qualified = <<>> THEN <<>>
       ELSE [k \in DOMAIN qualified |-> chain_quote(data, qualified[k])]

ChainContracts == {[strike |-> 8000, right |-> "C"], [strike |-> 8000, right |-> "P"]}

ChainInit ==
    /\ lookup \in {[expiration |-> 20260320, has_chain |-> h, strikes |-> st,
                    listed |-> li, raw |-> rw] :
                     h \in BOOLEAN, st \in {<<>>, <<8000>>}, li \in SUBSET ChainContracts,
                     rw \in [ChainContracts -> RawTriples]}
    /\ quotes = [stage |-> "input", chain |-> <<>>]

\* get_chain is called for the expiration.
GetChainIBKR ==
    /\ quotes.stage = "input"
    /\ quotes' = [stage |-> "done", chain |-> get_chain_ibkr(lookup)]
    /\ UNCHANGED lookup

ChainNext ==
    \/ GetChainIBKR /\ UNCHANGED <<windowVars, pricingVars, serviceVars, curveVars, workerVars, viewVars, storeVars, connVars, historyVars>>

ChainSpecInit ==
    /\ WindowInit /\ PricingIdle /\ ServiceIdle /\ ChainInit /\ CurveIdle /\ WorkerIdle
    /\ ViewIdle /\ StoreIdle /\ ConnIdle /\ AddedIdle

SpecChain == ChainSpecInit /\ [][ChainNext]_vars

---------------------------------------------------------------------------
(* db/repository.py: OptionsRepository over one table of snapshots.        *)

\* A row of the table, columns as insert_snapshots names them.
SnapshotRow(q, snapshot_utc) ==
    [expiration_date |-> q.expiration, strike |-> q.strike, option_type |-> q.right,
     bid |-> q.bid, ask |-> q.ask, last |-> q.last, snapshot_utc |-> snapshot_utc]

\* Mutant: every row is stored with the right of the first quote of the batch.
insert_snapshots_FirstRight(rows, batch, snapshot_utc) ==
    IF batch = <<>> THEN [ret |-> 0, rows |-> rows]
    ELSE [ret |-> Len(batch),
          rows |-> rows \o [i \in 1..Len(batch) |->
                       SnapshotRow([batch[i] EXCEPT !.right = batch[1].right], snapshot_utc)]]

\* insert_snapshots: no quotes, no statement and 0; else one INSERT per quote,
\* all with the same snapshot time, one commit, and the number of quotes.
insert_snapshots(rows, batch, snapshot_utc) ==
    IF batch = <<>> THEN [ret |-> 0, rows |-> rows]
    ELSE [ret |-> Len(batch),
          rows |-> rows \o [i \in 1..Len(batch) |-> SnapshotRow(batch[i], snapshot_utc)]]

\* The store's comparison of two texts: as written under a case-sensitive
\* collation, without regard to case otherwise.
store_text_equal(case_sensitive, a, b) ==
    IF case_sensitive THEN a = b ELSE Upper(a) = Upper(b)

\* WHERE expiration_date = ? AND strike = ? AND option_type = ?, with the
\* parameters (expiration, strike, option_type.upper()).
history_where(case_sensitive, row, expiration, strike, option_type) ==
    /\ row.expiration_date = expiration
    /\ row.strike = strike
    /\ store_text_equal(case_sensitive, row.option_type, Upper(option_type))

\* get_price_history: the (snapshot_utc, bid, ask, last) of the selected rows,
\* ORDER BY snapshot_utc; rows of one snapshot time come in any order, so this
\* is the set of the lists the call can return.
get_price_history(rows, case_sensitive, expiration, strike, option_type) ==
    LET hit == {i \in DOMAIN rows :
                   history_where(case_sensitive, rows[i], expiration, strike, option_type)}
        n == Cardinality(hit)
        orders == {f \in [1..n -> hit] :
                      /\ \A a, b \in 1..n : a # b => f[a] # f[b]
                      /\ \A a, b \in 1..n :
                             a < b => rows[f[a]].snapshot_utc <= rows[f[b]].snapshot_utc}
    IN  {[k \in 1..n |-> <<rows[f[k]].snapshot_utc, rows[f[k]].bid, rows[f[k]].ask, rows[f[k]].last>>] :
            f \in orders}

\* Most rows the table of the model holds, and the snapshot times 1..MaxSnapshots.
MaxRows == 2
MaxSnapshots == 2

\* Quotes to store: 4000C, a 4000 call written with a lower-case right, 4100P.
StoreQuotes ==
    {OptionQuote(20271217, 8000, "C", 2, 4, 3, NoDelta),
     OptionQuote(20271217, 8000, "c", 6, 8, 7, NoDelta),
     OptionQuote(20271217, 8200, "P", 10, 12, 11, NoDelta)}

NoQuery == <<>>

StoreInit ==
    /\ db \in [rows : {<<>>}, case_sensitive : BOOLEAN, query : {NoQuery}, history : {<<>>},
             inserted : {<<>>}]
    /\ collector = [pc |-> "idle"]

InsertSnapshots ==
    \E batch \in SeqsUpTo(StoreQuotes, MaxChain), snapshot_utc \in 1..MaxSnapshots :
        /\ Len(db.rows) + Len(batch) <= MaxRows
        /\ \E r \in {insert_snapshots(db.rows, batch, snapshot_utc)} :
               db' = [db EXCEPT !.rows = r.rows, !.query = NoQuery, !.history = <<>>,
                                !.inserted = @ \o [i \in 1..r.ret |-> <<batch[i], snapshot_utc>>]]
        /\ UNCHANGED collector

GetPriceHistory ==
    \E q \in StoreQuotes, option_type \in {"C", "P", "c"} :
        \E h \in get_price_history(db.rows, db.case_sensitive, q.expiration, q.strike, option_type) :
            /\ db' = [db EXCEPT
                   !.query = <<[expiration |-> q.expiration, strike |-> q.strike,
                                option_type |-> option_type]>>,
                   !.history = h]
            /\ UNCHANGED collector

storeFrame == <<windowVars, pricingVars, serviceVars, lookupVars, curveVars, workerVars, viewVars,
               connVars, historyVars>>

StoreNext ==
    \/ InsertSnapshots /\ UNCHANGED storeFrame
    \/ GetPriceHistory /\ UNCHANGED storeFrame

StoreSpecInit ==
    /\ WindowInit /\ PricingIdle /\ ServiceIdle
    /\ LookupIdle /\ CurveIdle /\ WorkerIdle /\ ViewIdle /\ ConnIdle /\ AddedIdle
    /\ StoreInit

SpecStore == StoreSpecInit /\ [][StoreNext]_vars

---------------------------------------------------------------------------
(* collector.py: collect_once and run_collector_loop.                      *)

NoExpiration == <<>>

\* Mutant: every listed expiration counts as a future one.
future_expirations_All(listed, today) == listed

\* future = [e for e in expirations if e >= today]
future_expirations(listed, today) == SelectSeq(listed, LAMBDA e : e >= today)

\* Mutant: an explicit expiration is the target whether it is listed or not.
collect_target_NoFallback(listed, future, expiration) ==
    IF expiration # NoExpiration THEN expiration[1] ELSE future[1]

\* target: the explicit expiration if there is one, else future[0]; an
\* expiration the supplier does not list is replaced by future[0].
collect_target(listed, future, expiration) ==
    LET target == IF expiration # NoExpiration THEN expiration[1] ELSE future[1]
    IN  IF \A i \in DOMAIN listed : listed[i] # target THEN future[1] ELSE target

\* collect_once for a supplier that lists `listed` and whose chains are
\* market[expiration], on day `today`, the clock reading snapshot_utc: the
\* value returned, the rows of the table afterwards and the get_chain calls.
collect_once(listed, market, rows, expiration, today, snapshot_utc) ==
    LET future == future_expirations(listed, today)
    IN  IF future = <<>> THEN [ret |-> 0, rows |-> rows, fetched |-> <<>>, chain |-> <<>>]
        ELSE LET target == collect_target(listed, future, expiration)
                 fetched_chain == market[target]
             IN  IF fetched_chain = <<>>
                 THEN [ret |-> 0, rows |-> rows, fetched |-> <<target>>, chain |-> <<>>]
                 ELSE LET r == insert_snapshots(rows, fetched_chain, snapshot_utc)
                      IN  [ret |-> r.ret, rows |-> r.rows, fetched |-> <<target>>,
                           chain |-> fetched_chain]

\* The expirations of the collector's supplier: 2026-01-16 and 2026-02-20 can
\* be listed (in ascending order, as the suppliers return them), 2026-03-20
\* never is; the days a call can be made on lie before, between and after them.
CollectorDates == {20260116, 20260220, 20260320}
CollectorListings == {<<>>, <<20260116>>, <<20260220>>, <<20260116, 20260220>>}
CollectorDays == {20260101, 20260201, 20261104}

\* The chains the supplier can return: per expiration an empty chain or a
\* chain of one (2026-01-16) or two (2026-02-20) quotes; none for 2026-03-20.
CollectorMarkets ==
    {[e \in CollectorDates |->
         CASE e = 20260116 -> IF a THEN <<OptionQuote(e, 8000, "C", 2, 4, 3, NoDelta)>> ELSE <<>>
           [] e = 20260220 -> IF b THEN <<OptionQuote(e, 8000, "C", 6, 8, 7, NoDelta),
                                          OptionQuote(e, 8200, "P", 10, 12, 11, NoDelta)>>
                              ELSE <<>>
           [] OTHER -> <<>>] : a, b \in BOOLEAN}

NoCall == <<>>

CollectorInit ==
    /\ db = [rows |-> <<>>, case_sensitive |-> FALSE, query |-> NoQuery, history |-> <<>>,
             inserted |-> <<>>]
    /\ collector \in [pc : {"start"}, connected : {FALSE},
                      listed : CollectorListings,
                      expiration : {NoExpiration} \cup {<<e>> : e \in CollectorDates},
                      call : {NoCall}, log : {<<>>}]

\* repo.ensure_schema() returns.
EnsureSchema ==
    /\ collector.pc = "start"
    /\ collector' = [collector EXCEPT !.pc = "connecting", !.log = Append(@, "ensure_schema")]
    /\ UNCHANGED db

\* supplier.connect() returns; the loop is entered.
Connect ==
    /\ collector.pc = "connecting"
    /\ collector' = [collector EXCEPT !.pc = "collecting", !.connected = TRUE,
                                      !.log = Append(@, "connect")]
    /\ UNCHANGED db

\* ensure_schema or connect raises: both are called before the try statement.
StartFails ==
    /\ collector.pc \in {"start", "connecting"}
    /\ collector' = [collector EXCEPT
           !.pc = "crashed",
           !.log = Append(@, IF collector.pc = "start" THEN "ensure_schema" ELSE "connect")]
    /\ UNCHANGED db

\* A cycle in which collect_once returns.
CollectOnce ==
    /\ collector.pc = "collecting"
    /\ \E today \in CollectorDays, market \in CollectorMarkets, snapshot_utc \in 1..MaxSnapshots :
           \E r \in {collect_once(collector.listed, market, db.rows, collector.expiration,
                                  today, snapshot_utc)} :
               /\ Len(r.rows) <= MaxRows
               /\ db' = [db EXCEPT !.rows = r.rows,
                             !.inserted = @ \o [i \in 1..r.ret |-> <<r.chain[i], snapshot_utc>>]]
               /\ collector' = [collector EXCEPT
                      !.pc = "sleeping",
                      !.call = <<[raised |-> FALSE, during |-> collector.log, today |-> today, market |-> market,
                                  snapshot_utc |-> snapshot_utc, rows_before |-> db.rows,
                                  fetched |-> r.fetched, ret |-> <<r.ret>>]>>]

\* Mutant: an Exception raised in a cycle ends the loop.
CollectFails_EndsLoop ==
    /\ collector.pc = "collecting"
    /\ collector' = [collector EXCEPT !.pc = "crashed", !.call = <<[raised |-> TRUE, during |-> collector.log]>>]
    /\ UNCHANGED db

\* A cycle in which the supplier or the repository raises an Exception: it is
\* logged, nothing is committed, and the loop goes on to sleep.
CollectFails ==
    /\ collector.pc = "collecting"
    /\ collector' = [collector EXCEPT !.pc = "sleeping", !.call = <<[raised |-> TRUE, during |-> collector.log]>>]
    /\ UNCHANGED db

\* time.sleep(interval_seconds) returns; the next cycle begins.
Wake ==
    /\ collector.pc = "sleeping"
    /\ collector' = [collector EXCEPT !.pc = "collecting"]
    /\ UNCHANGED db

\* Mutant: the loop is left without the finally clause.
Interrupt_NoDisconnect ==
    /\ collector.pc \in {"collecting", "sleeping"}
    /\ collector' = [collector EXCEPT !.pc = "interrupted"]
    /\ UNCHANGED db

\* KeyboardInterrupt, or another error that except Exception does not catch,
\* in a cycle or in the sleep: the finally clause calls supplier.disconnect().
Interrupt ==
    /\ collector.pc \in {"collecting", "sleeping"}
    /\ collector' = [collector EXCEPT !.pc = "interrupted", !.connected = FALSE,
                                      !.log = Append(@, "disconnect")]
    /\ UNCHANGED db

CollectorNext ==
    \/ EnsureSchema /\ UNCHANGED storeFrame
    \/ Connect /\ UNCHANGED storeFrame
    \/ StartFails /\ UNCHANGED storeFrame
    \/ CollectOnce /\ UNCHANGED storeFrame
    \/ CollectFails /\ UNCHANGED storeFrame
    \/ Wake /\ UNCHANGED storeFrame
    \/ Interrupt /\ UNCHANGED storeFrame

CollectorSpecInit ==
    /\ WindowInit /\ PricingIdle /\ ServiceIdle
    /\ LookupIdle /\ CurveIdle /\ WorkerIdle /\ ViewIdle /\ ConnIdle /\ AddedIdle
    /\ CollectorInit

SpecCollector == CollectorSpecInit /\ [][CollectorNext]_vars

\* The same loop when every time.sleep(interval_seconds) returns.
SpecCollectorFair ==
    /\ CollectorSpecInit
    /\ [][CollectorNext]_vars
    /\ WF_vars(Wake /\ UNCHANGED storeFrame)

---------------------------------------------------------------------------
(* Floats with a fraction.  A float is [m, e], the number m * 2^e, with m  *)
(* odd (or m = 0, e = 0) and |m| < 2^MantissaBits; every result is the     *)
(* nearest float, ties to the even mantissa.                               *)

RECURSIVE FpNorm(_, _)
FpNorm(m, e) ==
    IF m = 0 THEN [m |-> 0, e |-> 0]
    ELSE IF m % 2 = 0 THEN FpNorm(m \div 2, e + 1)
    ELSE [m |-> m, e |-> e]

\* Number of bits of n >= 0.
RECURSIVE BitLen(_)
BitLen(n) == IF n = 0 THEN 0 ELSE 1 + BitLen(n \div 2)

\* The float nearest to m * 2^e.
FpRound(m, e) ==
    LET a == Abs(m)
        k == BitLen(a) - MantissaBits
    IN IF k <= 0 THEN FpNorm(m, e)
       ELSE LET q == 2^k
                lo == a \div q
                rest == a % q
                r == IF 2 * rest > q \/ (2 * rest = q /\ lo % 2 = 1) THEN lo + 1 ELSE lo
            IN FpNorm(IF m < 0 THEN 0 - r ELSE r, e + k)

\* float(n) of an integer n.
Fp(n) == FpRound(n, 0)

\* The mantissa of a at the exponent e <= a.e.
FpAt(a, e) == a.m * 2^(a.e - e)

FpAdd(a, b) == FpRound(FpAt(a, Min2(a.e, b.e)) + FpAt(b, Min2(a.e, b.e)), Min2(a.e, b.e))
FpSub(a, b) == FpRound(FpAt(a, Min2(a.e, b.e)) - FpAt(b, Min2(a.e, b.e)), Min2(a.e, b.e))
FpMul(a, b) == FpRound(a.m * b.m, a.e + b.e)
FpLess(a, b) == FpAt(a, Min2(a.e, b.e)) < FpAt(b, Min2(a.e, b.e))

\* i / n of two integers, i >= 0 and n >= 1 (true division): the quotient is taken
\* with enough bits and a sticky bit for the remainder, then rounded.
FpDiv(i, n) ==
    LET k == MantissaBits + 2 + BitLen(n)
        whole == (i * 2^k) \div n
        sticky == IF (i * 2^k) % n = 0 THEN 0 ELSE 1
    IN FpRound(2 * whole + sticky, 0 - k - 1)

\* max(0.0, x)
FpMax0(x) == IF x.m > 0 THEN x ELSE Fp(0)

---------------------------------------------------------------------------
(* position/pnl_curve.py.  The strike of a leg is a float here.            *)

\* Mutant: a Put is paid like a Call.
leg_payoff_at_s_PutAsCall(leg, s) ==
    LET k == leg.strike
        mult == leg.multiplier
        intrinsic == FpMax0(FpSub(s, k))
    IN IF leg.action = BUY THEN FpMul(Fp(mult), intrinsic) ELSE FpMul(Fp(0 - mult), intrinsic)

\* _leg_payoff_at_s
leg_payoff_at_s(leg, s) ==
    LET k == leg.strike
        mult == leg.multiplier
        intrinsic == IF Upper(leg.right) = "C" THEN FpMax0(FpSub(s, k))
                     ELSE FpMax0(FpSub(k, s))
    IN IF leg.action = BUY THEN FpMul(Fp(mult), intrinsic) ELSE FpMul(Fp(0 - mult), intrinsic)

\* sum(...) of floats: 0 + x1 + x2 + ..., added from left to right.
RECURSIVE fsum(_, _)
fsum(start, xs) == IF xs = <<>> THEN start ELSE fsum(FpAdd(start, Head(xs)), Tail(xs))

\* Mutant: the sweep stops one step short of s_max.
sample_price_Short(s_min, s_max, i, steps) ==
    FpAdd(s_min, FpMul(FpSub(s_max, s_min), FpDiv(i, steps + 1)))

\* Line 39: s = s_min + (s_max - s_min) * (i / steps)
sample_price(s_min, s_max, i, steps) ==
    FpAdd(s_min, FpMul(FpSub(s_max, s_min), FpDiv(i, steps)))

\* Lines 39-42: the point appended for the index i.
curve_point(c, i) ==
    LET s == sample_price(c.s_min, c.s_max, i, c.steps)
        value == fsum(Fp(0), [n \in DOMAIN c.legs |-> leg_payoff_at_s(c.legs[n], s)])
        pnl == FpSub(value, c.cost_basis)
    IN <<s, pnl>>

\* Mutant: the loop runs over range(steps).
loop_range_Steps(steps) == 0..(steps - 1)

\* range(steps + 1)
loop_range(steps) == 0..steps

\* Most steps of a curve of the model.
MaxSteps == 3

\* Legs of the curves: a long Call and a short Put of two contracts at the strike 4,
\* a long Put at the strike 6.
CurveLegs ==
    {PositionLeg(20260320, Fp(4), "C", BUY, 1), PositionLeg(20260320, Fp(4), "P", SELL, 2),
     PositionLeg(20260320, Fp(6), "p", BUY, 1)}

\* Bounds of the sweep and cost bases.
CurvePrices == {Fp(1), Fp(2), Fp(6), Fp(8), Fp(10)}
CostBases == {Fp(0 - 2), Fp(0), Fp(1)}

\* pnl_at_expiry_curve(legs, cost_basis, s_min, s_max, steps) is called.
CurveInit ==
    /\ curve \in [legs : SeqsUpTo(CurveLegs, 2), cost_basis : CostBases,
                  s_min : CurvePrices, s_max : CurvePrices, steps : 1..MaxSteps]
    /\ curve_out = <<>>
    /\ curve_pc = "call"
    /\ curve_i = 0

\* Lines 35-37: no legs, return []; else out = [].
CurveCall ==
    /\ curve_pc = "call"
    /\ curve_pc' = IF curve.legs = <<>> THEN "returned" ELSE "loop"
    /\ UNCHANGED <<curve, curve_out, curve_i>>

\* Lines 38-42: one turn of the loop, for the next index i of the range.
CurvePoint ==
    /\ curve_pc = "loop"
    /\ curve_i \in loop_range(curve.steps)
    /\ curve_i' = curve_i + 1
    /\ curve_out' = Append(curve_out, curve_point(curve, curve_i))
    /\ UNCHANGED <<curve, curve_pc>>

\* Line 43: return out.
CurveReturn ==
    /\ curve_pc = "loop"
    /\ curve_i \notin loop_range(curve.steps)
    /\ curve_pc' = "returned"
    /\ UNCHANGED <<curve, curve_out, curve_i>>

CurveNext ==
    \/ CurveCall /\ UNCHANGED <<windowVars, pricingVars, serviceVars, lookupVars, workerVars, viewVars, storeVars, connVars, historyVars>>
    \/ CurvePoint /\ UNCHANGED <<windowVars, pricingVars, serviceVars, lookupVars, workerVars, viewVars, storeVars, connVars, historyVars>>
    \/ CurveReturn /\ UNCHANGED <<windowVars, pricingVars, serviceVars, lookupVars, workerVars, viewVars, storeVars, connVars, historyVars>>

CurveSpecInit ==
    /\ WindowInit /\ PricingIdle /\ ServiceIdle /\ LookupIdle /\ CurveInit /\ WorkerIdle
    /\ ViewIdle /\ StoreIdle /\ ConnIdle /\ AddedIdle

SpecCurve == CurveSpecInit /\ [][CurveNext]_vars

---------------------------------------------------------------------------
(* ui/position_builder.py, _IBWorker: the request queue between the GUI    *)
(* thread and the worker thread.  An item of the queue is [item, id]: item *)
(* is <<>> for None (the stop marker) and <<legs>> for a list of legs; id  *)
(* is the number of the request_refresh call that put it (history, 0 for a *)
(* stop marker).  The calls of request_refresh and stop come from the GUI  *)
(* thread, one after the other; each queue operation is one step, and the  *)
(* worker thread may take its steps between any two of them.               *)

\* Most calls of request_refresh and of stop in a behaviour of the model.
MaxRequests == 3
MaxStops == 2

StopMarker == [item |-> <<>>, id |-> 0]
IsStop(x) == x.item = <<>>

\* Lists of legs the window can ask quotes for (a copy of its legs, which may be empty).
RefreshLegs ==
    {<<>>, <<PositionLeg(20260320, 8000, "C", BUY, 1)>>,
     <<PositionLeg(20260320, 8000, "C", BUY, 1), PositionLeg(20260320, 8200, "C", SELL, 1)>>}

\* Mutant: every drained item is kept and put back.
keeps_drained_All(x) == TRUE

\* Lines 199-200: of the items taken off the queue only None is kept in drained.
keeps_drained(x) == IsStop(x)

\* _IBWorker() is constructed and started (lines 185-188, 547-553).
WorkerInit ==
    /\ request_queue = <<>>
    /\ refresh = [pc |-> "idle", legs |-> <<>>, drained |-> <<>>]
    /\ worker = [pc |-> "connecting", id |-> 0]
    /\ calls = [requests |-> 0, stops |-> 0, first_stop |-> <<>>]

\* Line 190: the GUI thread calls request_refresh(legs), here request_refresh(ls).
RequestRefresh(ls) ==
    /\ refresh.pc = "idle"
    /\ calls.requests < MaxRequests
    /\ calls' = [calls EXCEPT !.requests = @ + 1]
    /\ refresh' = [pc |-> "drain", legs |-> ls, drained |-> <<>>]
    /\ UNCHANGED <<request_queue, worker>>

\* Lines 198-200: get_nowait() returns an item; it is kept if it is None.
DrainItem ==
    /\ refresh.pc = "drain"
    /\ request_queue # <<>>
    /\ request_queue' = Tail(request_queue)
    /\ refresh' = [refresh EXCEPT !.drained = IF keeps_drained(Head(request_queue))
                                              THEN Append(@, Head(request_queue)) ELSE @]
    /\ UNCHANGED <<worker, calls>>

\* Lines 201-202: get_nowait() raises queue.Empty, the loop ends.
DrainEmpty ==
    /\ refresh.pc = "drain"
    /\ request_queue = <<>>
    /\ refresh' = [refresh EXCEPT !.pc = "reput"]
    /\ UNCHANGED <<request_queue, worker, calls>>

\* Mutant: the kept items are dropped instead of being put back.
PutBack_Dropped ==
    /\ refresh.pc = "reput"
    /\ refresh.drained # <<>>
    /\ refresh' = [refresh EXCEPT !.drained = Tail(@)]
    /\ UNCHANGED <<request_queue, worker, calls>>

\* Lines 203-204: the next kept item is put back.
PutBack ==
    /\ refresh.pc = "reput"
    /\ refresh.drained # <<>>
    /\ request_queue' = Append(request_queue, Head(refresh.drained))
    /\ refresh' = [refresh EXCEPT !.drained = Tail(@)]
    /\ UNCHANGED <<worker, calls>>

\* Line 207: self._request_queue.put(legs); the call returns.
PutLegs ==
    /\ refresh.pc = "reput"
    /\ refresh.drained = <<>>
    /\ request_queue' = Append(request_queue, [item |-> <<refresh.legs>>, id |-> calls.requests])
    /\ refresh' = [pc |-> "idle", legs |-> <<>>, drained |-> <<>>]
    /\ UNCHANGED <<worker, calls>>

\* Lines 209-211: the GUI thread calls stop().
Stop ==
    /\ refresh.pc = "idle"
    /\ calls.stops < MaxStops
    /\ calls' = [calls EXCEPT !.stops = @ + 1,
                           !.first_stop = IF @ = <<>> THEN <<calls.requests>> ELSE @]
    /\ request_queue' = Append(request_queue, StopMarker)
    /\ UNCHANGED <<refresh, worker>>

\* Lines 218-231: the worker connects and loads the expirations, then enters its loop.
WorkerConnected ==
    /\ worker.pc = "connecting"
    /\ worker' = [worker EXCEPT !.pc = "waiting"]
    /\ UNCHANGED <<request_queue, refresh, calls>>

\* Lines 221-224, 228-231: connecting or loading the expirations fails, run returns.
WorkerConnectFailed ==
    /\ worker.pc = "connecting"
    /\ worker' = [worker EXCEPT !.pc = "exited"]
    /\ UNCHANGED <<request_queue, refresh, calls>>

\* Lines 233-237: get() returns the oldest item: None ends the loop, an empty list is
\* skipped, a list of legs is worked on.
WorkerGet ==
    /\ worker.pc = "waiting"
    /\ request_queue # <<>>
    /\ request_queue' = Tail(request_queue)
    /\ worker' = IF IsStop(Head(request_queue)) THEN [pc |-> "exited", id |-> worker.id]
                 ELSE IF Head(request_queue).item[1] = <<>> THEN worker
                 ELSE [pc |-> "busy", id |-> Head(request_queue).id]
    /\ UNCHANGED <<refresh, calls>>

\* Lines 238-245: the quotes or the error of the request are emitted; back to get().
WorkerEmit ==
    /\ worker.pc = "busy"
    /\ worker' = [worker EXCEPT !.pc = "waiting"]
    /\ UNCHANGED <<request_queue, refresh, calls>>

WorkerNext ==
    \/ (\E ls \in RefreshLegs : RequestRefresh(ls))
          /\ UNCHANGED <<windowVars, pricingVars, serviceVars, lookupVars, curveVars, viewVars, storeVars, connVars, historyVars>>
    \/ DrainItem /\ UNCHANGED <<windowVars, pricingVars, serviceVars, lookupVars, curveVars, viewVars, storeVars, connVars, historyVars>>
    \/ DrainEmpty /\ UNCHANGED <<windowVars, pricingVars, serviceVars, lookupVars, curveVars, viewVars, storeVars, connVars, historyVars>>
    \/ PutBack /\ UNCHANGED <<windowVars, pricingVars, serviceVars, lookupVars, curveVars, viewVars, storeVars, connVars, historyVars>>
    \/ PutLegs /\ UNCHANGED <<windowVars, pricingVars, serviceVars, lookupVars, curveVars, viewVars, storeVars, connVars, historyVars>>
    \/ Stop /\ UNCHANGED <<windowVars, pricingVars, serviceVars, lookupVars, curveVars, viewVars, storeVars, connVars, historyVars>>
    \/ WorkerConnected /\ UNCHANGED <<windowVars, pricingVars, serviceVars, lookupVars, curveVars, viewVars, storeVars, connVars, historyVars>>
    \/ WorkerConnectFailed /\ UNCHANGED <<windowVars, pricingVars, serviceVars, lookupVars, curveVars, viewVars, storeVars, connVars, historyVars>>
    \/ WorkerGet /\ UNCHANGED <<windowVars, pricingVars, serviceVars, lookupVars, curveVars, viewVars, storeVars, connVars, historyVars>>
    \/ WorkerEmit /\ UNCHANGED <<windowVars, pricingVars, serviceVars, lookupVars, curveVars, viewVars, storeVars, connVars, historyVars>>

WorkerSpecInit ==
    /\ WindowInit /\ PricingIdle /\ ServiceIdle /\ LookupIdle /\ CurveIdle /\ WorkerInit
    /\ ViewIdle /\ StoreIdle /\ ConnIdle /\ AddedIdle

SpecWorker == WorkerSpecInit /\ [][WorkerNext]_vars

workerFrame == <<windowVars, pricingVars, serviceVars, lookupVars, curveVars, viewVars, storeVars, connVars, historyVars>>

\* The same threads when both are scheduled: a call of request_refresh under
\* way takes its next step, connect and the resolution of a request end, and
\* get() returns when the queue holds an item.
SpecWorkerFair ==
    /\ WorkerSpecInit
    /\ [][WorkerNext]_vars
    /\ WF_vars((DrainItem \/ DrainEmpty \/ PutBack \/ PutLegs) /\ UNCHANGED workerFrame)
    /\ WF_vars((WorkerConnected \/ WorkerConnectFailed \/ WorkerGet \/ WorkerEmit)
                   /\ UNCHANGED workerFrame)

---------------------------------------------------------------------------
(* The window with its quotes: the Bid and Ask cells of legs_table, the    *)
(* total labels, the status line and the worker's replies.  Prices are in  *)
(* quarters of a cent.                                                      *)

\* _format_price, lines 258-262: "" for 0.0, else f"{value:.2f}" (whole cents, to
\* nearest; the prices of the model are never half a cent away from two cents).
FormatPrice(value) ==
    IF value = 0 THEN EmptyText ELSE Num(4 * ((value + 2) \div 4))

\* float(text) if text else 0.0, ValueError -> 0.0 (lines 865-872).
ParsePrice(text) == IF text.t = "num" THEN text.v ELSE 0

NoCells == [bid |-> EmptyText, ask |-> EmptyText]

\* _table_row_to_leg_key, lines 828-847, of the key cells of a row: <<>> is None.
table_row_to_leg_key(cells) ==
    LET t == Lower(cells.type) IN
    IF cells.exp.t # "num" \/ ~ParseFloat(cells.strike).ok \/ t \notin {"call", "put"}
    THEN <<>>
    ELSE <<<<cells.exp.v, ParseFloat(cells.strike).v, IF t = "call" THEN "C" ELSE "P">>>>

\* The rows of legs_table as a redraw reads them: key cells and the Bid and Ask cells.
TableRows(l, tbl) ==
    [r \in 1..Len(tbl) |-> [cells |-> RowTexts(l[r]), bid |-> tbl[r].bid, ask |-> tbl[r].ask]]

\* _redraw_legs_table_impl, lines 1014-1076: the Bid and Ask texts are kept per key
\* parsed from the rows on screen (a later row of the same key wins; the Delta cell
\* is never empty, so every row with a key is kept) and written back per leg of l.
redraw_legs_table(rows, l) ==
    LET holders(key) == {r \in 1..Len(rows) : table_row_to_leg_key(rows[r].cells) = <<key>>}
        latest(S) == CHOOSE r \in S : \A q \in S : q <= r
    IN [i \in 1..Len(l) |->
          IF holders(LegKey(l[i])) = {} THEN NoCells
          ELSE [bid |-> rows[latest(holders(LegKey(l[i])))].bid,
                ask |-> rows[latest(holders(LegKey(l[i])))].ask]]

\* The labels after _set_totals: the two totals, and (history) the legs whose
\* actions and multipliers went into them.
Totals(lazy_total, smart_total, of) ==
    <<[lazy |-> lazy_total, smart |-> smart_total, of |-> of]>>

\* _recalculate_totals_from_table, lines 849-879: the labels it leaves.
recalculate_totals_from_table(l, tbl) ==
    LET table_resolved == [i \in 1..Len(l) |->
                             <<l[i], ParsePrice(tbl[i].bid), ParsePrice(tbl[i].ask)>>]
    IN IF l = <<>> \/ Len(tbl) # Len(l) THEN NoTotals
       ELSE IF \E i \in 1..Len(l) : table_resolved[i][2] = 0 /\ table_resolved[i][3] = 0
       THEN NoTotals
       ELSE Totals(lazy_bot_total(table_resolved), smart_bot_total(table_resolved), l)

\* IBWorker.request_refresh, lines 190-207, as one step: pending leg lists are
\* dropped, a stop marker is kept, the new list goes last.
request_refresh(queue, l) ==
    SelectSeq(queue, keeps_drained) \o <<[item |-> <<l>>, id |-> 0]>>

\* _refresh_prices, lines 1078-1085: [totals, queue] after it.
refresh_prices(l, tot, queue, st, w) ==
    IF l = <<>> THEN [totals |-> NoTotals, queue |-> queue]
    ELSE IF ~st.connected \/ w.pc \notin {"connecting", "waiting"}
    THEN [totals |-> tot, queue |-> queue]
    ELSE [totals |-> tot, queue |-> request_refresh(queue, l)]

\* _request_leg_prices_refresh, lines 1087-1093.
request_leg_prices_refresh(l, tot, queue, st, w) ==
    IF l = <<>> THEN [totals |-> tot, queue |-> queue]
    ELSE refresh_prices(l, tot, queue, st, w)

\* _row_for_leg, lines 820-826: the first row of the same key, 0 for -1.
row_for_leg(l, leg) ==
    LET found == {i \in 1..Len(l) : LegKey(l[i]) = LegKey(leg)}
    IN IF found = {} THEN 0 ELSE FirstOf(found)

\* Mutant: only the lengths are compared.
resolved_matches_current_legs_Length(res, l) ==
    Len(res) = Len(l)

\* _resolved_matches_current_legs, lines 1099-1115.
resolved_matches_current_legs(res, l) ==
    /\ Len(res) = Len(l)
    /\ \A i \in 1..Len(res) : /\ res[i][1].expiration = l[i].expiration
                             /\ res[i][1].strike = l[i].strike
                             /\ Upper(res[i][1].right) = Upper(l[i].right)

\* _on_leg_quotes_loaded, lines 1136-1142: the Bid and Ask cells of row.
fill_cells(tbl, row, bid, ask) ==
    IF bid # 0 \/ ask # 0
    THEN [tbl EXCEPT ![row] = [bid |-> FormatPrice(bid), ask |-> FormatPrice(ask)]]
    ELSE tbl

\* _on_leg_quotes_loaded, lines 1128-1144: the loop over the resolved tuples.
RECURSIVE update_cells(_, _, _)
update_cells(tbl, l, res) ==
    IF res = <<>> THEN tbl
    ELSE LET row == row_for_leg(l, Head(res)[1])
         IN update_cells(IF row = 0 \/ row > Len(tbl) THEN tbl
                         ELSE fill_cells(tbl, row, Head(res)[2], Head(res)[3]),
                         l, Tail(res))

\* The legs of a resolved list, in its order.
LegsOf(res) == [i \in 1..Len(res) |-> res[i][1]]

\* _on_leg_quotes_loaded, lines 1145-1148: the labels it leaves.
totals_after_quotes(res, lazy_total, smart_total, l, tbl) ==
    IF resolved_matches_current_legs(res, l)
    THEN Totals(lazy_total, smart_total, LegsOf(res))
    ELSE recalculate_totals_from_table(l, tbl)

\* _on_leg_quotes_loaded, lines 1127 and 1150-1154: the status line it leaves.
status_after_quotes(res) ==
    IF res # <<>> /\ \A i \in 1..Len(res) : res[i][2] = 0 /\ res[i][3] = 0
    THEN "hint" ELSE "ok"

\* The reply to a request for the legs ls: one tuple (leg, bid, ask, delta) per
\* leg, in order, and the two totals of these tuples.
resolve_quotes(ls, market) ==
    LET res == [i \in 1..Len(ls) |-> <<ls[i], market[i][1], market[i][2], NoDelta>>]
    IN [resolved |-> res, lazy |-> lazy_bot_total(res), smart |-> smart_bot_total(res)]

\* Bid and ask a source answers for a leg; <<0, 0>> is "no quote".
QuotePairs == {<<0, 0>>, <<5, 7>>}

ViewInit ==
    /\ table = <<>>
    /\ totals = NoTotals
    /\ status = [connected |-> FALSE, line |-> "ok", last |-> "none"]
    /\ taken = <<>>
    /\ request_queue = <<>>
    /\ refresh = [pc |-> "idle", legs |-> <<>>, drained |-> <<>>]
    /\ worker = [pc |-> "connecting", id |-> 0]
    /\ calls = [requests |-> 0, stops |-> 0, first_stop |-> <<>>]

\* History: the window handled a click, an edit or a timer tick.
UserActed == status' = [status EXCEPT !.last = "user"]

\* A handler that returned before it redrew the table (or was ended by an IndexError).
ViewReturned ==
    /\ UserActed
    /\ UNCHANGED <<table, totals, taken, request_queue, worker>>

\* The tail of the handlers that change the legs: _redraw_legs_table, then (unless
\* the handler leaves it out) _recalculate_totals_from_table, then
\* _request_leg_prices_refresh.  rows is the table the redraw reads.
ViewAfter(rows, recalculate) ==
    /\ table' = redraw_legs_table(rows, legs')
    /\ \E t \in {IF recalculate THEN recalculate_totals_from_table(legs', table')
                 ELSE totals} :
       \E r \in {request_leg_prices_refresh(legs', t, request_queue, status, worker)} :
          /\ totals' = r.totals
          /\ request_queue' = r.queue
    /\ UserActed
    /\ UNCHANGED <<taken, worker>>

\* A handler's netting result r is stored; an IndexError ends the handler there.
ViewStore(r, rows, recalculate) ==
    /\ WithinBounds(r.legs)
    /\ legs' = r.legs
    /\ IF r.outcome = "IndexError" THEN ViewReturned ELSE ViewAfter(rows, recalculate)

\* IBWorker.run, lines 213-231, then _on_expirations_loaded, lines 586-602.
ExpirationsReady ==
    /\ worker.pc = "connecting"
    /\ worker' = [worker EXCEPT !.pc = "waiting"]
    /\ expirations' = SupplierExpirations
    /\ status' = [connected |-> TRUE, line |-> "ok", last |-> "expirations"]
    /\ UNCHANGED <<legs, lastOp, netAdded, table, totals, taken, request_queue>>

\* IBWorker.run failing to connect or to load the expirations, then
\* _on_ib_worker_error -> _on_expirations_error, lines 604-614, whose
\* _set_connection_status(False) stops the worker.
ConnectFailed ==
    /\ worker.pc = "connecting"
    /\ worker' = [worker EXCEPT !.pc = "exited"]
    /\ status' = [status EXCEPT !.connected = FALSE, !.last = "error"]
    /\ request_queue' = Append(request_queue, StopMarker)
    /\ UNCHANGED <<windowVars, table, totals, taken>>

\* _on_connect_clicked / _on_auto_reconnect -> _start_ib_worker, lines 540-553: a
\* new worker with a queue of its own, once the old one has ended.
Reconnect ==
    /\ worker.pc = "exited"
    /\ worker' = [worker EXCEPT !.pc = "connecting"]
    /\ request_queue' = <<>>
    /\ UNCHANGED <<windowVars, table, totals, status, taken>>

\* _on_add_leg, lines 671-720, with its redraw, totals and refresh request.
ViewOnAddLeg(selected, strikeText, typeText, actionText, mult) ==
    /\ selected # <<>>
    /\ ParseFloat(strikeText).ok
    /\ ViewStore(AddLeg(legs, selected[1], ParseFloat(strikeText).v,
                        IF typeText = "Call" THEN "C" ELSE "P",
                        IF actionText = "Buy" THEN BUY ELSE SELL, mult),
                 TableRows(legs, table), TRUE)
    /\ UNCHANGED <<expirations, lastOp, netAdded>>

\* _on_edit_leg, lines 722-780, likewise.
ViewOnEditLeg(row, exp, strikeText, typeText, actionText, mult) ==
    /\ row \in 1..Len(legs)
    /\ exp \in expirations
    /\ ParseFloat(strikeText).ok
    /\ ViewStore(EditLeg(legs, row, PositionLeg(exp, ParseFloat(strikeText).v,
                                                IF typeText = "Call" THEN "C" ELSE "P",
                                                IF actionText = "Buy" THEN BUY ELSE SELL, mult)),
                 TableRows(legs, table), TRUE)
    /\ UNCHANGED <<expirations, lastOp, netAdded>>

\* _on_leg_cell_changed -> _apply_leg_edit, lines 923-1003: the redraw reads the
\* row as edited, and the totals are not recalculated.
ViewOnLegCellChanged(row, col, text) ==
    /\ row \in 1..Len(legs)
    /\ \E parsed \in {LegFromTableRow([RowTexts(legs[row]) EXCEPT ![col] = text],
                                      expirations)} :
          /\ parsed.kind = "leg"
          /\ ViewStore(ApplyLegEdit(legs, row, parsed.leg),
                       [TableRows(legs, table) EXCEPT ![row].cells[col] = text], FALSE)
    /\ UNCHANGED <<expirations, lastOp, netAdded>>

\* _on_remove_clicked, lines 789-801: the row leaves the list and the table.
ViewOnRemoveClicked(row) ==
    /\ row \in 1..Len(legs)
    /\ legs' = Pop(legs, row)
    /\ ViewAfter(Pop(TableRows(legs, table), row), TRUE)
    /\ UNCHANGED <<expirations, lastOp, netAdded>>

\* _on_clear_all_legs, lines 803-809.
ViewOnClearAllLegs ==
    /\ legs # <<>>
    /\ legs' = <<>>
    /\ table' = <<>>
    /\ totals' = NoTotals
    /\ UserActed
    /\ UNCHANGED <<expirations, lastOp, netAdded, taken, request_queue, worker>>

\* The refresh timer (and the first refresh 600 ms after connecting): _refresh_prices.
OnRefreshTimer ==
    /\ status.connected
    /\ \E r \in {refresh_prices(legs, totals, request_queue, status, worker)} :
          /\ totals' = r.totals
          /\ request_queue' = r.queue
    /\ UserActed
    /\ UNCHANGED <<windowVars, table, taken, worker>>

\* IBWorker.run, lines 232-238: the next item of the queue.  The worker serves one
\* request at a time; taken holds it until the window has handled its signal.
WorkerTake ==
    /\ worker.pc = "waiting"
    /\ request_queue # <<>>
    /\ taken = <<>>
    /\ request_queue' = Tail(request_queue)
    /\ IF IsStop(Head(request_queue))
       THEN worker' = [worker EXCEPT !.pc = "exited"] /\ UNCHANGED taken
       ELSE IF Head(request_queue).item[1] = <<>>
       THEN UNCHANGED <<worker, taken>>
       ELSE taken' = <<Head(request_queue).item[1]>> /\ UNCHANGED worker
    /\ UNCHANGED <<windowVars, table, totals, status>>

\* leg_quotes_ready delivered: _on_leg_quotes_loaded, then the lambda of line 550.
OnLegQuotesLoaded(res, lazy_total, smart_total) ==
    /\ table' = update_cells(table, legs, res)
    /\ totals' = totals_after_quotes(res, lazy_total, smart_total, legs, table')
    /\ status' = [connected |-> TRUE, line |-> status_after_quotes(res), last |-> "quotes"]
    /\ UNCHANGED <<windowVars, request_queue, worker>>

\* IBWorker.run, lines 238-240: the reply to the request taken.
QuotesLoaded ==
    /\ taken # <<>>
    /\ taken' = <<>>
    /\ \E market \in [1..Len(taken[1]) -> QuotePairs] :
       \E r \in {resolve_quotes(taken[1], market)} :
          OnLegQuotesLoaded(r.resolved, r.lazy, r.smart)

\* Mutant: every error is handled as a connection error.
OnIbWorkerError_Disconnects ==
    /\ status' = [status EXCEPT !.connected = FALSE, !.last = "error"]
    /\ request_queue' = Append(request_queue, StopMarker)
    /\ UNCHANGED <<windowVars, table, totals, worker>>

\* error delivered: _on_ib_worker_error, lines 560-565, and _on_quotes_error,
\* lines 616-625 (or _on_expirations_error while not connected).
OnIbWorkerError ==
    IF status.connected
    THEN /\ status' = [status EXCEPT !.line = "error", !.last = "error"]
         /\ UNCHANGED <<windowVars, table, totals, request_queue, worker>>
    ELSE /\ status' = [status EXCEPT !.connected = FALSE, !.last = "error"]
         /\ request_queue' = Append(request_queue, StopMarker)
         /\ UNCHANGED <<windowVars, table, totals, worker>>

\* IBWorker.run, lines 241-245: the request taken failed.
QuotesFailed ==
    /\ taken # <<>>
    /\ taken' = <<>>
    /\ OnIbWorkerError

viewFrame == <<pricingVars, serviceVars, lookupVars, curveVars, storeVars, connVars, historyVars, refresh, calls>>

\* What the user enters in this specification: single calls of one expiration at
\* the strikes of StrikeValues; a dialog turns a leg into a sold single call; cells
\* are edited in the Action column.
ViewDates == {20260320}
ViewStrikeTexts == {Num(s) : s \in StrikeValues}
ViewCellEdits == {<<"action", "Buy">>, <<"action", "Sell">>}

ViewNext ==
    \/ ExpirationsReady /\ UNCHANGED viewFrame
    \/ ConnectFailed /\ UNCHANGED viewFrame
    \/ Reconnect /\ UNCHANGED viewFrame
    \/ (\E sel \in {<<d>> : d \in expirations \cap ViewDates},
           st \in ViewStrikeTexts, ac \in {"Buy", "Sell"} :
           ViewOnAddLeg(sel, st, "Call", ac, 1)) /\ UNCHANGED viewFrame
    \/ (\E row \in 1..Len(legs), e \in expirations \cap ViewDates, st \in ViewStrikeTexts :
           ViewOnEditLeg(row, e, st, "Call", "Sell", 1)) /\ UNCHANGED viewFrame
    \/ (\E row \in 1..Len(legs), ce \in ViewCellEdits :
           ViewOnLegCellChanged(row, ce[1], ce[2])) /\ UNCHANGED viewFrame
    \/ (\E row \in 1..Len(legs) : ViewOnRemoveClicked(row)) /\ UNCHANGED viewFrame
    \/ ViewOnClearAllLegs /\ UNCHANGED viewFrame
    \/ OnRefreshTimer /\ UNCHANGED viewFrame
    \/ WorkerTake /\ UNCHANGED viewFrame
    \/ QuotesLoaded /\ UNCHANGED viewFrame
    \/ QuotesFailed /\ UNCHANGED viewFrame

ViewSpecInit ==
    /\ WindowInit /\ PricingIdle /\ ServiceIdle /\ LookupIdle /\ CurveIdle
    /\ ViewInit /\ StoreIdle /\ ConnIdle /\ AddedIdle

SpecView == ViewSpecInit /\ [][ViewNext]_vars

---------------------------------------------------------------------------
(* ui/position_builder.py: starting and abandoning IB workers.  conn is    *)
(* [ib_worker, connected, connect_btn, load_exp_btn, shown, threads,       *)
(* signals]: the window's _ib_worker (<<>> for None, else <<i>>),          *)
(* _connected, whether the Connect and the Load expirations buttons are    *)
(* enabled, whether the window was shown; threads[i]                       *)
(* is worker thread i, [pc, broker, stopped, attached]: where its run is,  *)
(* whether its supplier holds a broker connection, whether stop() was      *)
(* called, whether its signals are still connected to the window; signals  *)
(* holds the emitted signals [from, kind] the GUI thread has not handled.  *)

\* Most workers started and most signals waiting in a behaviour of the model.
MaxWorkers == 2
MaxSignals == 3

\* QThread.isRunning(): run has not returned.
isRunning(t) == t.pc # "finished"

\* _start_ib_worker: nothing if _ib_worker is a running worker; else a new
\* worker is created, its signals are connected and it is started.
start_ib_worker(c) ==
    IF c.ib_worker # <<>> /\ isRunning(c.threads[c.ib_worker[1]]) THEN c
    ELSE [c EXCEPT !.connect_btn = FALSE, !.load_exp_btn = FALSE,
                   !.threads = Append(@, [pc |-> "connecting", broker |-> FALSE,
                                          stopped |-> FALSE, attached |-> TRUE]),
                   !.ib_worker = <<Len(c.threads) + 1>>]

\* The states worker t can be in when wait(5000) returns after stop(): run
\* has returned, or the wait has timed out with the worker where it was.
after_wait(t) ==
    {[t EXCEPT !.stopped = TRUE, !.attached = FALSE],
     [pc |-> "finished", broker |-> FALSE, stopped |-> TRUE, attached |-> FALSE]}

\* The signals still to be delivered once the three signals of worker i are
\* disconnected; its finished signal stays connected.
disconnect_signals(sigs, i) ==
    SelectSeq(sigs, LAMBDA x : x.from # i \/ x.kind = "finished")

ConnInit ==
    conn = [ib_worker |-> <<>>, connected |-> FALSE, connect_btn |-> TRUE, load_exp_btn |-> TRUE,
            shown |-> FALSE, threads |-> <<>>, signals |-> <<>>]

\* A worker is started only while the model has one to spare.
CanStart == Len(conn.threads) < MaxWorkers \/ start_ib_worker(conn) = conn

\* showEvent, the first time the window is shown.
ShowEvent ==
    /\ ~conn.shown /\ CanStart
    /\ conn' = [start_ib_worker(conn) EXCEPT !.shown = TRUE]

\* _on_connect_clicked: the Connect button is clicked while it is enabled.
OnConnectClicked ==
    /\ conn.shown /\ conn.connect_btn /\ CanStart
    /\ conn' = start_ib_worker(conn)
    /\ conn' # conn

\* _on_load_expirations: Load expirations is clicked while it is enabled.
OnLoadExpirations ==
    /\ conn.shown /\ conn.load_exp_btn /\ CanStart
    /\ conn' = start_ib_worker(conn)
    /\ conn' # conn

\* _on_auto_reconnect: the one-minute timer fires.
OnAutoReconnect ==
    /\ CanStart
    /\ conn' = IF conn.connected THEN conn ELSE start_ib_worker(conn)
    /\ conn' # conn

\* Worker i emits a signal: it is queued for the GUI thread if the signal is
\* still connected.
Emit(c, i, kind) ==
    IF c.threads[i].attached \/ kind = "finished"
    THEN [c EXCEPT !.signals = Append(@, [from |-> i, kind |-> kind])]
    ELSE c

\* run, lines 219-220: supplier.connect() returns.
WConnect(i) ==
    /\ conn.threads[i].pc = "connecting"
    /\ conn' = [conn EXCEPT !.threads[i].pc = "loading", !.threads[i].broker = TRUE]

\* run, lines 221-224: supplier.connect() raises; error is emitted, run returns
\* through finally.
WConnectFails(i) ==
    /\ conn.threads[i].pc = "connecting"
    /\ Len(conn.signals) < MaxSignals
    /\ conn' = Emit([conn EXCEPT !.threads[i].pc = "closing"], i, "error")

\* run, lines 225-227: the expirations are emitted, the loop is entered.
WExpirations(i) ==
    /\ conn.threads[i].pc = "loading"
    /\ Len(conn.signals) < MaxSignals
    /\ conn' = Emit([conn EXCEPT !.threads[i].pc = "loop"], i, "expirations_ready")

\* run, lines 228-231: get_expirations raises; error is emitted, run returns
\* through finally with the supplier still connected.
WExpirationsFail(i) ==
    /\ conn.threads[i].pc = "loading"
    /\ Len(conn.signals) < MaxSignals
    /\ conn' = Emit([conn EXCEPT !.threads[i].pc = "closing"], i, "error")

\* run, lines 232-245: a request of the window is resolved or fails.
WQuotes(i, kind) ==
    /\ conn.threads[i].pc = "loop"
    /\ conn.connected /\ conn.ib_worker = <<i>>
    /\ Len(conn.signals) < MaxSignals
    /\ conn' = Emit(conn, i, kind)

\* run, lines 233-235: get() returns the None that stop() has put.
WTakeStop(i) ==
    /\ conn.threads[i].pc = "loop"
    /\ conn.threads[i].stopped
    /\ conn' = [conn EXCEPT !.threads[i].pc = "closing"]

\* run, lines 246-252: the supplier is disconnected, run returns and the
\* thread emits finished.
WFinish(i) ==
    /\ conn.threads[i].pc = "closing"
    /\ conn' = Emit([conn EXCEPT !.threads[i].pc = "finished", !.threads[i].broker = FALSE],
                    i, "finished")

\* _set_connection_status(False): the button is enabled and the worker, if
\* any, is stopped, waited for at most five seconds, disconnected from the
\* window and forgotten.
set_disconnected(c) ==
    IF c.ib_worker = <<>>
    THEN {[c EXCEPT !.connected = FALSE, !.connect_btn = TRUE]}
    ELSE {[c EXCEPT !.connected = FALSE, !.connect_btn = TRUE,
                    !.threads[c.ib_worker[1]] = t,
                    !.signals = disconnect_signals(@, c.ib_worker[1])
                                    \o (IF isRunning(c.threads[c.ib_worker[1]]) /\ ~isRunning(t)
                                        THEN <<[from |-> c.ib_worker[1], kind |-> "finished"]>>
                                        ELSE <<>>),
                    !.ib_worker = <<>>] : t \in after_wait(c.threads[c.ib_worker[1]])}

\* The GUI thread handles the oldest signal: _on_expirations_loaded and the
\* lambda of leg_quotes_ready set the status to connected, _on_ib_worker_error
\* goes to _on_quotes_error while connected and to _on_expirations_error
\* otherwise, _on_ib_worker_finished enables the button again.
Deliver ==
    /\ conn.signals # <<>>
    /\ \E c \in {[conn EXCEPT !.signals = Tail(@)]} :
           \E kind \in {Head(conn.signals).kind} :
               CASE kind \in {"expirations_ready", "leg_quotes_ready"} ->
                        conn' = [c EXCEPT !.connected = TRUE, !.connect_btn = FALSE]
                 [] kind = "error" ->
                        IF c.connected THEN conn' = c ELSE conn' \in set_disconnected(c)
                 [] OTHER -> conn' = [c EXCEPT !.load_exp_btn = TRUE, !.connect_btn = ~c.connected]

connFrame == <<windowVars, pricingVars, serviceVars, lookupVars, curveVars, workerVars, viewVars,
               storeVars, historyVars>>

ConnNext ==
    \/ ShowEvent /\ UNCHANGED connFrame
    \/ OnConnectClicked /\ UNCHANGED connFrame
    \/ OnLoadExpirations /\ UNCHANGED connFrame
    \/ OnAutoReconnect /\ UNCHANGED connFrame
    \/ (\E i \in DOMAIN conn.threads : WConnect(i)) /\ UNCHANGED connFrame
    \/ (\E i \in DOMAIN conn.threads : WConnectFails(i)) /\ UNCHANGED connFrame
    \/ (\E i \in DOMAIN conn.threads : WExpirations(i)) /\ UNCHANGED connFrame
    \/ (\E i \in DOMAIN conn.threads : WExpirationsFail(i)) /\ UNCHANGED connFrame
    \/ (\E i \in DOMAIN conn.threads, kind \in {"leg_quotes_ready", "error"} : WQuotes(i, kind))
           /\ UNCHANGED connFrame
    \/ (\E i \in DOMAIN conn.threads : WTakeStop(i)) /\ UNCHANGED connFrame
    \/ (\E i \in DOMAIN conn.threads : WFinish(i)) /\ UNCHANGED connFrame
    \/ Deliver /\ UNCHANGED connFrame

ConnSpecInit ==
    /\ WindowInit /\ PricingIdle /\ ServiceIdle
    /\ LookupIdle /\ CurveIdle /\ WorkerIdle /\ ViewIdle /\ StoreIdle
    /\ ConnInit /\ AddedIdle

SpecConn == ConnSpecInit /\ [][ConnNext]_vars

---------------------------------------------------------------------------
(* ui/position_builder.py, _update_pnl_chart: the call of                  *)
(* pnl_at_expiry_curve made whenever the legs were redrawn.  Strikes are   *)
(* in half points as in the window, so 4000.0, 10000.0 and 400 of the code *)
(* are 8000, 20000 and 800; on these whole numbers of half points Python's *)
(* float arithmetic is exact.  QtCharts is taken to be installed.          *)

\* Strikes typed by the user: 3600, 3700, 6000, 10300 and 10400.
ChartStrikes == {7200, 7400, 12000, 20600, 20800}

\* min(strikes) and max(strikes) of a non-empty leg list.
min_strike(l) == CHOOSE s \in {l[i].strike : i \in 1..Len(l)} : \A j \in 1..Len(l) : s <= l[j].strike
max_strike(l) == CHOOSE s \in {l[i].strike : i \in 1..Len(l)} : \A j \in 1..Len(l) : s >= l[j].strike

\* Lines 1195-1199: the arguments of the call, for a non-empty leg list l and
\* the labels t (cost is the lazy total, 0.0 while it is unknown).
chart_arguments(l, t) ==
    [legs |-> l,
     cost_basis |-> IF t = NoTotals THEN 0 ELSE t[1].lazy,
     s_min |-> Max2(8000, min_strike(l) - 800),
     s_max |-> Min2(20000, max_strike(l) + 800),
     steps |-> 80]

\* _update_pnl_chart after the legs became l: the series is cleared; without
\* legs the function returns, else pnl_at_expiry_curve is called.
UpdatePnlChart(l) ==
    /\ curve_out' = <<>>
    /\ curve_i' = 0
    /\ IF l = <<>>
       THEN curve_pc' = "idle" /\ UNCHANGED curve
       ELSE curve_pc' = "call" /\ curve' = chart_arguments(l, totals)

\* _on_add_leg with a numeric strike, then the redraw and the chart.
ChartOnAddLeg(exp, strike, right, action, mult) ==
    \E r \in {AddLeg(legs, exp, strike, right, action, mult)} :
        /\ WithinBounds(r.legs)
        /\ legs' = r.legs
        /\ UpdatePnlChart(r.legs)

\* _on_remove_clicked for the leg at row, then the redraw and the chart.
ChartOnRemoveClicked(row) ==
    /\ row \in 1..Len(legs)
    /\ legs' = Pop(legs, row)
    /\ UpdatePnlChart(Pop(legs, row))

chartFrame == <<expirations, lastOp, netAdded, pricingVars, serviceVars, lookupVars, workerVars,
                viewVars, storeVars, connVars, historyVars>>

ChartNext ==
    \/ (\E exp \in SupplierExpirations, strike \in ChartStrikes, right \in Rights,
          action \in LegActions, mult \in 1..MaxContracts :
            ChartOnAddLeg(exp, strike, right, action, mult)) /\ UNCHANGED chartFrame
    \/ (\E row \in 1..MaxContracts : ChartOnRemoveClicked(row)) /\ UNCHANGED chartFrame

ChartSpecInit ==
    /\ WindowInit /\ PricingIdle /\ ServiceIdle
    /\ LookupIdle /\ CurveIdle /\ WorkerIdle /\ ViewIdle /\ StoreIdle /\ ConnIdle /\ AddedIdle

SpecChart == ChartSpecInit /\ [][ChartNext]_vars

---------------------------------------------------------------------------
(* Netting and the payoff: legs are added by _on_add_leg, and the value of *)
(* the position at a price is the sum of line 40 of pnl_curve.py over the  *)
(* window's leg list; added keeps the legs as they were asked.  Strikes    *)
(* and prices are small whole numbers here, so that every strike and price *)
(* is a float and sums of payoffs need more bits than a float has.         *)

\* Most legs added in a behaviour of the model.
MaxAdded == 2

\* Strikes and multipliers typed by the user, prices at which the position is valued.
NetStrikes == {4, 6}
NetMults == {1, 2, 3}
NetPrices == {1, 2, 5, 7, 8, 10}

\* The value of a float with e >= 0.
FpVal(a) == a.m * 2^a.e

\* Line 40: value = sum(_leg_payoff_at_s(leg, s) for leg in legs), for the
\* legs l of the window (leg.strike is the float of the strike typed).
position_value(l, s) ==
    fsum(Fp(0), [n \in DOMAIN l |-> leg_payoff_at_s([l[n] EXCEPT !.strike = Fp(@)], s)])

\* _on_add_leg with a numeric strike; the leg asked for is remembered.
NetOnAddLeg(exp, strike, right, action, mult) ==
    /\ Len(added) < MaxAdded
    /\ legs' = AddLeg(legs, exp, strike, right, action, mult).legs
    /\ added' = Append(added, PositionLeg(exp, strike, right, action, mult))

netFrame == <<expirations, lastOp, netAdded, pricingVars, serviceVars, lookupVars, curveVars,
              workerVars, viewVars, storeVars, connVars>>

NetNext ==
    (\E exp \in {20260320}, strike \in NetStrikes, right \in Rights, action \in LegActions,
        mult \in NetMults : NetOnAddLeg(exp, strike, right, action, mult)) /\ UNCHANGED netFrame

NetSpecInit ==
    /\ WindowInit /\ PricingIdle /\ ServiceIdle
    /\ LookupIdle /\ CurveIdle /\ WorkerIdle /\ ViewIdle /\ StoreIdle /\ ConnIdle /\ AddedIdle

SpecNet == NetSpecInit /\ [][NetNext]_vars

---------------------------------------------------------------------------
(* Claims about the leg list.                                              *)

\* Multipliers of the legs a user asks for (beyond what a position of the model holds).
CandidateMults == 1..(MaxContracts + 1)

\* Every leg a user can ask for.
CandidateLegs ==
    {PositionLeg(e, s, r, a, m) : e \in SupplierExpirations, s \in StrikeValues,
                                  r \in Rights, a \in LegActions, m \in CandidateMults}

\* The candidate of action a and multiplier m that has the key of leg.
SameKeyAs(leg, a, m) == PositionLeg(leg.expiration, leg.strike, Upper(leg.right), a, m)

\* Signed contract count of a leg: +multiplier for Buy, -multiplier for Sell.
SignedCount(leg) == IF leg.action = "Buy" THEN leg.multiplier ELSE 0 - leg.multiplier

\* The legs of a list, as a set.
LegSet(l) == {l[i] : i \in DOMAIN l}

\* Rows of the position that hold the key k.
RowsOfKey(k) == {i \in DOMAIN legs : LegKey(legs[i]) = k}

\* The leg of key k that carries the signed count n (n # 0).
NettedLeg(k, n) == PositionLeg(k[1], k[2], k[3], IF n > 0 THEN "Buy" ELSE "Sell", Abs(n))

AddOf(c) == AddLeg(legs, c.expiration, c.strike, c.right, c.action, c.multiplier)

\* C1: after any sequence of add, edit, remove and clear operations from the empty
\* position, no two legs of the position have the same (expiration, strike, right) key.
C1_NoTwoLegsShareKey ==
    \A i \in DOMAIN legs : \A j \in DOMAIN legs :
        i # j => LegKey(legs[i]) # LegKey(legs[j])

\* C1 witness: an edit whose new key collided with another row has been merged.
C1_Witness == lastOp = Op("edit", "merge") /\ Len(legs) >= 1

\* C2: add-leg of a candidate whose key an existing leg has: with net the sum of the
\* two signed counts, net = 0 removes the existing leg and inserts nothing, net > 0
\* leaves a Buy leg of multiplier net in its place, net < 0 a Sell leg of multiplier
\* |net|; every other leg is kept and the position never grows.
C2_AddNetsWithExistingLeg ==
    \A i \in DOMAIN legs : \A a \in LegActions, m \in CandidateMults :
        \A c \in {SameKeyAs(legs[i], a, m)} :
            \A net \in {SignedCount(legs[i]) + SignedCount(c)},
               others \in {LegSet(legs) \ {legs[i]}},
               after \in {AddOf(c).legs} :
                /\ Len(after) <= Len(legs)
                /\ net = 0 => LegSet(after) = others /\ Len(after) = Len(legs) - 1
                /\ net # 0 => /\ LegSet(after) = others \cup {NettedLeg(LegKey(c), net)}
                              /\ Len(after) = Len(legs)

\* C2 witness: an add has netted a Buy against a Sell of the same key and left Sell 1.
C2_Witness ==
    /\ lastOp = Op("add", "merge")
    /\ \E i \in DOMAIN legs : legs[i].action = "Sell" /\ legs[i].multiplier = 1

\* C3: for every key the position holds exactly one leg, whose signed count is the
\* sum of the signed counts asked for on that key so far, or no leg of that key when
\* that sum is zero.
C3_PositionIsSumOfAdds ==
    \A k \in Keys :
        IF netAdded[k] = 0 THEN RowsOfKey(k) = {}
        ELSE /\ Cardinality(RowsOfKey(k)) = 1
             /\ \A i \in RowsOfKey(k) : SignedCount(legs[i]) = netAdded[k]

\* C3 witness: a second add of the same key has been netted into one Buy 2 leg.
C3_Witness ==
    /\ lastOp = Op("add", "merge")
    /\ \E i \in DOMAIN legs : SignedCount(legs[i]) = 2 /\ netAdded[LegKey(legs[i])] = 2

\* C4: edit of row r to a leg whose key another row j has: a zero sum of the two
\* signed counts removes both rows, any other sum leaves the merged leg for row j and
\* removes row r; the dialog flow and the cell flow give the same position.
C4_EditMergesIntoOtherRow ==
    \A r \in DOMAIN legs : \A j \in DOMAIN legs \ {r} :
        \A a \in LegActions, m \in CandidateMults :
            \A c \in {SameKeyAs(legs[j], a, m)} :
                \A net \in {SignedCount(legs[j]) + SignedCount(c)},
                   others \in {LegSet(legs) \ {legs[r], legs[j]}},
                   dialog \in {EditLeg(legs, r, c).legs},
                   cell \in {ApplyLegEdit(legs, r, c).legs} :
                    /\ cell = dialog
                    /\ net = 0 => LegSet(cell) = others /\ Len(cell) = Len(legs) - 2
                    /\ net # 0 => /\ LegSet(cell) = others \cup {NettedLeg(LegKey(c), net)}
                                  /\ Len(cell) = Len(legs) - 1

\* C4 witness: a dialog edit onto the key of another row netted to zero; both rows went.
C4_Witness == lastOp = Op("edit", "flat") /\ legs = <<>>

\* C5: when no other leg has the candidate's key, add-leg inserts the candidate as it
\* is and edit-leg replaces only the edited leg by the new leg as it is; every other
\* leg is kept with its key, action and multiplier.
C5_NoMatchInsertsOrReplaces ==
    \A held \in {LegSet(legs)} :
        /\ \A c \in CandidateLegs :
              (\A x \in held : LegKey(x) # LegKey(c)) =>
                  \A after \in {AddOf(c).legs} :
                      /\ LegSet(after) = held \cup {c}
                      /\ Len(after) = Len(legs) + 1
        /\ \A r \in DOMAIN legs : \A c \in CandidateLegs :
              (\A x \in held \ {legs[r]} : LegKey(x) # LegKey(c)) =>
                  \A dialog \in {EditLeg(legs, r, c).legs},
                     cell \in {ApplyLegEdit(legs, r, c).legs} :
                      /\ LegSet(dialog) = (held \ {legs[r]}) \cup {c}
                      /\ Len(dialog) = Len(legs)
                      /\ cell = dialog

\* C5 witness: an edit has replaced one leg while another leg stood by.
C5_Witness == lastOp = Op("edit", "replace") /\ Len(legs) = 2

\* a is not behind b: expiration ascending, then Call before Put, then strike ascending.
InCanonicalOrder(a, b) ==
    \/ a.expiration < b.expiration
    \/ /\ a.expiration = b.expiration
       /\ \/ a.right = "C" /\ b.right = "P"
          \/ a.right = b.right /\ a.strike <= b.strike

\* C6: after every operation the position is sorted by expiration ascending, then
\* Call before Put, then strike ascending.
C6_CanonicalOrder ==
    \A i \in DOMAIN legs : \A j \in DOMAIN legs :
        i < j => InCanonicalOrder(legs[i], legs[j])

\* C6 witness: after an add, a Call stands before a Put of a lower strike.
C6_Witness ==
    /\ lastOp.op = "add"
    /\ Len(legs) = 2
    /\ legs[1].expiration = legs[2].expiration
    /\ legs[1].right = "C" /\ legs[2].right = "P"
    /\ legs[1].strike > legs[2].strike

\* C7: netting never fails and never leaves an invalid leg: no add or edit of a leg of
\* multiplier >= 1 ends in an error (an index out of range), and after any sequence of
\* operations every leg of the position has an integer multiplier >= 1.
C7_NettingTotalAndValid ==
    /\ lastOp.outcome # "IndexError"
    /\ \A i \in DOMAIN legs : legs[i].multiplier \in Nat /\ legs[i].multiplier >= 1

\* C7 witness: a cell edit netted to zero and popped both rows without an error.
C7_Witness == lastOp = Op("cell", "flat")

---------------------------------------------------------------------------
(* Claims about the totals.                                                *)

\* What the claim gives for one leg of the lazy total: multiplier * ask for a Buy,
\* -multiplier * bid for a Sell.
LazyTerm(e) ==
    IF e[1].action = "Buy" THEN e[1].multiplier * e[3] ELSE 0 - e[1].multiplier * e[2]

\* The mid of a quote: (bid + ask) / 2 if bid # 0 or ask # 0, else 0.
Mid(bid, ask) == IF bid # 0 \/ ask # 0 THEN RoundFloat(bid + ask) \div 2 ELSE 0

\* What the claim gives for one leg of the smart total: +multiplier * mid for a Buy,
\* -multiplier * mid for a Sell.
SmartTerm(e) ==
    IF e[1].action = "Buy" THEN e[1].multiplier * Mid(e[2], e[3])
    ELSE 0 - e[1].multiplier * Mid(e[2], e[3])

\* The float sum of the first n per-leg terms of resolved, in list order.
RECURSIVE SumOfTerms(_, _)
SumOfTerms(term(_), n) ==
    IF n = 0 THEN 0
    ELSE RoundFloat(SumOfTerms(term, n - 1) + RoundFloat(term(resolved[n])))

\* C8: lazy_bot_total of a list is the sum over the list of multiplier * ask for each
\* Buy leg and -multiplier * bid for each Sell leg; it is 0 for the empty list and a
\* number for every list.
C8_LazyTotalIsSumOfLegPrices ==
    pc \in {"lazy", "done"} =>
        /\ lazy = SumOfTerms(LazyTerm, Len(resolved))
        /\ lazy \in Int
        /\ resolved = <<>> => lazy = 0

\* C8 witness: the lazy total of a bought and a sold leg has been computed.
C8_Witness ==
    /\ pc = "lazy"
    /\ Len(resolved) = 2
    /\ resolved[1][1].action = "Buy" /\ resolved[2][1].action = "Sell"
    /\ resolved[2][2] # resolved[2][3]
    /\ lazy = resolved[1][1].multiplier * resolved[1][3]
              - resolved[2][1].multiplier * resolved[2][2]

\* C9: smart_bot_total of a list is the sum over the list of +multiplier * mid for
\* Buy legs and -multiplier * mid for Sell legs, with mid = (bid + ask) / 2 if
\* bid # 0 or ask # 0 and mid = 0 otherwise: a leg quoted 0/0 adds 0, and a leg
\* quoted bid = 0, ask = a adds a / 2 per contract.
C9_SmartTotalIsSumOfMids ==
    pc = "done" =>
        /\ smart = SumOfTerms(SmartTerm, Len(resolved))
        /\ \A i \in DOMAIN resolved :
              \A leg \in {resolved[i][1]}, bid \in {resolved[i][2]}, ask \in {resolved[i][3]} :
                 /\ (bid = 0 /\ ask = 0) => smart_bot_total(<<resolved[i]>>) = 0
                 /\ (bid = 0 /\ leg.action = "Buy") =>
                       smart_bot_total(<<resolved[i]>>) = RoundFloat(leg.multiplier * (ask \div 2))

\* C9 witness: the smart total of a leg quoted 0/0 and a bought leg quoted bid 0 has
\* been computed: half the ask of the second.
C9_Witness ==
    /\ pc = "done"
    /\ Len(resolved) = 2
    /\ resolved[1][2] = 0 /\ resolved[1][3] = 0
    /\ resolved[2][1].action = "Buy" /\ resolved[2][2] = 0 /\ resolved[2][3] # 0
    /\ 2 * smart = resolved[2][1].multiplier * resolved[2][3]

\* Every order of a list.
Orders(l) == {[i \in DOMAIN l |-> l[p[i]]] : p \in Permutations(DOMAIN l)}

RECURSIVE SumAbs(_)
SumAbs(prices) == IF prices = <<>> THEN 0 ELSE Abs(Head(prices)) + SumAbs(Tail(prices))

\* No addition of the left-to-right sum of prices is rounded.
RECURSIVE AddsExactly(_, _)
AddsExactly(start, prices) ==
    \/ prices = <<>>
    \/ /\ RoundFloat(start + Head(prices)) = start + Head(prices)
       /\ AddsExactly(start + Head(prices), Tail(prices))

\* Two totals of the same n prices agree up to the rounding of n - 1 additions each:
\* |a - b| <= 2 * g * (sum of |price|), g = (n - 1) * u / (1 - (n - 1) * u), u = 2^-MantissaBits.
WithinRounding(a, b, prices) ==
    \/ a = b
    \/ /\ Len(prices) >= 2
       /\ Abs(a - b) * (2^MantissaBits - (Len(prices) - 1)) <= 2 * (Len(prices) - 1) * SumAbs(prices)

LazyPrices(l) == [i \in DOMAIN l |-> leg_lazy_price(l[i][1], l[i][2], l[i][3])]
SmartPrices(l) == [i \in DOMAIN l |-> leg_smart_price(l[i][1], l[i][2], l[i][3])]

\* C10 as stated: for every list and every order of it, lazy_bot_total returns the
\* same value and smart_bot_total returns the same value.
C10_SameValueInEveryOrder ==
    pc = "done" =>
        \A q \in Orders(resolved) :
            /\ lazy_bot_total(q) = lazy
            /\ smart_bot_total(q) = smart

\* C10, amended: for every list and every order of it, each total agrees with the
\* total of the given order up to the rounding of the float additions; the two are
\* equal whenever no addition of either order is rounded.
C10_SameValueUpToRounding ==
    pc = "done" =>
        \A q \in Orders(resolved) :
            /\ WithinRounding(lazy_bot_total(q), lazy, LazyPrices(resolved))
            /\ WithinRounding(smart_bot_total(q), smart, SmartPrices(resolved))
            /\ (AddsExactly(0, LazyPrices(resolved)) /\ AddsExactly(0, LazyPrices(q)))
                  => lazy_bot_total(q) = lazy
            /\ (AddsExactly(0, SmartPrices(resolved)) /\ AddsExactly(0, SmartPrices(q)))
                  => smart_bot_total(q) = smart

\* C10 witness: the totals of a list are computed, and another order of the list has
\* a different lazy total.
C10_Witness ==
    /\ pc = "done"
    /\ \E q \in Orders(resolved) : q # resolved /\ lazy_bot_total(q) # lazy

---------------------------------------------------------------------------
(* Claims about quote resolution (get_leg_quotes).                         *)

\* The key of a leg or of a quote: (expiration, strike, uppercased right).
ContractKey(x) == <<x.expiration, x.strike, Upper(x.right)>>

\* The quotes of the fetched chain that have the key of the leg, in source order.
QuotesOfLeg(leg) == SelectSeq(chain, LAMBDA q : ContractKey(q) = ContractKey(leg))

\* The list a finished call returned.
Returned_resolved == result.value[1]

\* C11: the list under construction holds one tuple per leg handled so far, in input
\* order, and the returned list has the length of the leg list with the i-th leg in
\* its i-th tuple, whether or not a quote was found.
C11_OneTuplePerLegInOrder ==
    /\ Len(resolved) = leg_index
    /\ Len(resolved) <= Len(request.legs)
    /\ \A i \in DOMAIN resolved : resolved[i][1] = request.legs[i]
    /\ result.kind = "returned" =>
          /\ Len(Returned_resolved) = Len(request.legs)
          /\ \A i \in DOMAIN request.legs : Returned_resolved[i][1] = request.legs[i]

\* C11 witness: a call returned two tuples, the first with a quote, the second without.
C11_Witness ==
    /\ result.kind = "returned"
    /\ Len(request.legs) = 2
    /\ find_quote(chain, request.legs[1]) # <<>>
    /\ find_quote(chain, request.legs[2]) = <<>>
    /\ Returned_resolved[2][1] = request.legs[2]

\* C12 as stated: a leg with no matching contract in the source resolves to
\* (leg, 0.0, 0.0, None), the call returns, every other leg has its own quote, and the
\* unmatched leg adds 0 to both totals.
C12_UnmatchedLegIsPlaceholder ==
    result.kind = "returned" =>
        \A i \in DOMAIN request.legs :
            IF QuotesOfLeg(request.legs[i]) = <<>>
            THEN /\ Returned_resolved[i] = <<request.legs[i], 0, 0, NoDelta>>
                 /\ lazy_bot_total(<<Returned_resolved[i]>>) = 0
                 /\ smart_bot_total(<<Returned_resolved[i]>>) = 0
            ELSE /\ Returned_resolved[i][2] = QuotesOfLeg(request.legs[i])[1].bid
                 /\ Returned_resolved[i][3] = QuotesOfLeg(request.legs[i])[1].ask

\* C13 as stated: a leg has the bid and ask of a quote only when the quote's
\* (expiration, strike, uppercased right) is the leg's, whatever the case of the
\* right, and of several such quotes the first in source order; never of a quote of
\* another expiration.
C13_QuoteOfTheSameKeyOnly ==
    result.kind = "returned" =>
        \A i \in DOMAIN request.legs :
            \A own \in {QuotesOfLeg(request.legs[i])} :
                /\ own # <<>> => /\ Returned_resolved[i][2] = own[1].bid
                                 /\ Returned_resolved[i][3] = own[1].ask
                /\ own = <<>> => /\ Returned_resolved[i][2] = 0
                                 /\ Returned_resolved[i][3] = 0

\* C14: a call that returns gives (resolved, lazy_total, smart_total) with the totals
\* of the very list it returns: the lazy total is the sum of its per-leg lazy prices
\* and the smart total the sum of its per-leg mids.
C14_TotalsAreOfTheReturnedList ==
    result.kind = "returned" =>
        /\ Len(result.value) = 3
        /\ Returned_resolved = resolved
        /\ result.value[2] = SumOfTerms(LazyTerm, Len(resolved))
        /\ result.value[3] = SumOfTerms(SmartTerm, Len(resolved))

\* C14 witness: [Buy 1x 4000C, Sell 1x 4100C] with 4000C quoted 3/4 and 4100C quoted
\* 1/2 returned lazy 3 and smart 2 (6 and 4 half ticks).
C14_Witness ==
    /\ result.kind = "returned"
    /\ request.legs = <<PositionLeg(20260320, 8000, "C", BUY, 1),
                        PositionLeg(20260320, 8200, "C", SELL, 1)>>
    /\ Returned_resolved = <<<<request.legs[1], 6, 8>>, <<request.legs[2], 2, 4>>>>
    /\ result.value[2] = 6
    /\ result.value[3] = 4

\* C15: the source is asked for the chain once per call and never again; when it
\* fails, the call ends with the source's error as it is, with no resolved tuple and
\* no total.
C15_SourceFailureReachesCaller ==
    /\ get_chain_calls = (IF pc = "call" THEN 0 ELSE 1)
    /\ (pc # "call" /\ source.error # None) =>
          /\ pc = "raised"
          /\ result = [kind |-> "raised", error |-> source.error, value |-> <<>>]
          /\ resolved = <<>>
    /\ result.kind = "returned" => source.error = None

\* C15 witness: a call for two legs ended with the source's TimeoutError.
C15_Witness ==
    /\ result.kind = "raised"
    /\ result.error = "TimeoutError"
    /\ Len(request.legs) = 2
    /\ get_chain_calls = 1

---------------------------------------------------------------------------
(* Claims about the per-contract lookup (get_quotes_for_legs).             *)

\* The quotes the supplier holds for the contract of a leg, in source order; none
\* when the expiration of the leg is unknown.
HeldFor(leg) ==
    IF leg.expiration \in lookup.known
    THEN SelectSeq(lookup.chains[leg.expiration],
                   LAMBDA q : ContractKey(q) = ContractKey(leg))
    ELSE <<>>

IsPlaceholder(q) == q.bid = 0 /\ q.ask = 0 /\ q.last = 0 /\ q.delta = NoDelta

\* C16: get_quotes_for_legs, in the default implementation and in the IBKR override,
\* returns a list of the length of its input whose i-th quote has the i-th leg's
\* (expiration, strike, right) (rights compared in upper case); it carries the data
\* of the matched contract when there is one, and is the zero-filled placeholder
\* (bid 0, ask 0, last 0, delta None) when the contract is unmatched or its
\* expiration unknown.
C16_LookupIsOneQuotePerLeg ==
    /\ quotes.stage \in {"default", "done"} =>
          /\ Len(quotes.default) = Len(lookup.legs)
          /\ \A i \in DOMAIN lookup.legs :
                \A leg \in {lookup.legs[i]}, q \in {quotes.default[i]} :
                    /\ ContractKey(q) = ContractKey(leg)
                    /\ HeldFor(leg) = <<>> => IsPlaceholder(q)
                    /\ HeldFor(leg) # <<>> => q = HeldFor(leg)[1]
    /\ quotes.stage = "done" =>
          /\ Len(quotes.ibkr) = Len(lookup.legs)
          /\ \A i \in DOMAIN lookup.legs :
                \A leg \in {lookup.legs[i]}, q \in {quotes.ibkr[i]} :
                    /\ ContractKey(q) = ContractKey(leg)
                    /\ HeldFor(leg) = <<>> => IsPlaceholder(q)
                    /\ (HeldFor(leg) # <<>> /\ lookup.feed # "closed") =>
                          /\ q.bid = HeldFor(leg)[1].bid
                          /\ q.ask = HeldFor(leg)[1].ask
                          /\ q.last = HeldFor(leg)[1].last
                          /\ (q.delta = NoDelta) = (lookup.feed = "plain")
                    /\ (HeldFor(leg) # <<>> /\ lookup.feed = "closed") =>
                          /\ q.bid = 0 /\ q.ask = 0 /\ q.delta = NoDelta
                          /\ q.last = HeldFor(leg)[1].last

\* C16 witness: both implementations answered for a leg with a contract, a leg of an
\* unknown expiration and a leg whose contract the chain does not hold.
C16_Witness ==
    /\ quotes.stage = "done"
    /\ lookup.known = {20260320}
    /\ Len(lookup.legs) = 3
    /\ HeldFor(lookup.legs[1]) # <<>> /\ quotes.ibkr[1].bid # 0 /\ quotes.default[1].bid # 0
    /\ lookup.legs[2].expiration = 20260619 /\ IsPlaceholder(quotes.ibkr[2])
    /\ lookup.legs[3].expiration = 20260320 /\ IsPlaceholder(quotes.default[3])

---------------------------------------------------------------------------
(* Claims about the payoff curve.  The point of the index i is             *)
(* curve_out[i + 1], a pair <<s, pnl>>.                                    *)

\* pnl_at_expiry_curve has returned its list.
CurveReturned == curve_pc = "returned"

\* The underlying price of the point of index i.
PriceAt(i) == curve_out[i + 1][1]

\* C17: the payoff curve has exactly steps + 1 points for a list of one leg or more
\* (steps >= 1) and is the empty list for no legs, whatever the cost basis and the
\* bounds are.
C17_CurveHasStepsPlusOnePoints ==
    CurveReturned =>
        Len(curve_out) = IF curve.legs = <<>> THEN 0 ELSE curve.steps + 1

\* C17 witness: a curve of the most steps was returned for bounds in reverse order
\* and a cost basis that is not 0.
C17_Witness ==
    /\ CurveReturned
    /\ curve.legs # <<>>
    /\ curve.steps = MaxSteps
    /\ FpLess(curve.s_max, curve.s_min)
    /\ curve.cost_basis # Fp(0)
    /\ Len(curve_out) = MaxSteps + 1

\* The least exponent of s_min, s_max and the price s: all three are whole numbers of
\* units 2^LeastExp.
LeastExp(s) == Min2(s.e, Min2(curve.s_min.e, curve.s_max.e))

\* The price s of the index i is s_min + (s_max - s_min) * i / steps up to the rounding
\* of the four float operations that compute it, with u = 2^-MantissaBits:
\*   |s - exact| <= ((1 + u)^4 - 1) * |s_max - s_min| * i / steps + u * |s_min|.
PriceWithinRounding(i, s) ==
    LET E == LeastExp(s)
        a == FpAt(curve.s_min, E)
        b == FpAt(curve.s_max, E)
        n == curve.steps
        w == 2^MantissaBits
    IN w^4 * Abs(n * FpAt(s, E) - (n * a + (b - a) * i))
          <= ((w + 1)^4 - w^4) * Abs(b - a) * i + w^3 * n * Abs(a)

\* s_max - s_min is a float: the subtraction is not rounded.
DifferenceIsExact ==
    LET E == Min2(curve.s_min.e, curve.s_max.e)
    IN FpSub(curve.s_max, curve.s_min) = FpNorm(FpAt(curve.s_max, E) - FpAt(curve.s_min, E), E)

\* C18 as stated: the point of index i is at s_min + (s_max - s_min) * i / steps, the
\* first point is at s_min, the last at s_max, and for s_min < s_max the prices are
\* strictly increasing in i.
C18_SweepFromMinToMaxStrictly ==
    (CurveReturned /\ curve.legs # <<>>) =>
        /\ \A i \in 0..curve.steps : PriceWithinRounding(i, PriceAt(i))
        /\ PriceAt(0) = curve.s_min
        /\ PriceAt(curve.steps) = curve.s_max
        /\ FpLess(curve.s_min, curve.s_max) =>
              \A i \in 0..(curve.steps - 1) : FpLess(PriceAt(i), PriceAt(i + 1))

\* C18, amended: the point of index i is at s_min + (s_max - s_min) * i / steps up to
\* float rounding; the first point is exactly at s_min; the last is exactly at s_max
\* when s_max - s_min is computed without rounding; for s_min < s_max the prices never
\* decrease in i and the last is greater than the first.
C18_SweepUpToRounding ==
    (CurveReturned /\ curve.legs # <<>>) =>
        /\ \A i \in 0..curve.steps : PriceWithinRounding(i, PriceAt(i))
        /\ PriceAt(0) = curve.s_min
        /\ DifferenceIsExact => PriceAt(curve.steps) = curve.s_max
        /\ FpLess(curve.s_min, curve.s_max) =>
              /\ \A i \in 0..(curve.steps - 1) : ~FpLess(PriceAt(i + 1), PriceAt(i))
              /\ FpLess(PriceAt(0), PriceAt(curve.steps))

\* C18 witness: a curve from 1 to 10 in the most steps, where 10 - 1 is rounded: the
\* first price is 1, no price is less than the one before, the last is not 10.
C18_Witness ==
    /\ CurveReturned /\ curve.legs # <<>>
    /\ curve.s_min = Fp(1) /\ curve.s_max = Fp(10) /\ curve.steps = MaxSteps
    /\ ~DifferenceIsExact
    /\ PriceAt(0) = Fp(1)
    /\ \A i \in 0..(curve.steps - 1) : ~FpLess(PriceAt(i + 1), PriceAt(i))
    /\ FpLess(PriceAt(0), PriceAt(curve.steps))
    /\ PriceAt(curve.steps) # Fp(10)

\* The intrinsic value of a leg at the price s: max(0, s - strike) for a Call,
\* max(0, strike - s) for a Put.
Intrinsic(leg, s) ==
    IF leg.right \in {"C", "c"}
    THEN (IF FpLess(leg.strike, s) THEN FpSub(s, leg.strike) ELSE Fp(0))
    ELSE (IF FpLess(s, leg.strike) THEN FpSub(leg.strike, s) ELSE Fp(0))

\* +1 for Buy, -1 for Sell.
Sign(leg) == IF leg.action = "Buy" THEN 1 ELSE 0 - 1

\* The float sum of sign * multiplier * intrinsic over the first n legs, in list order.
RECURSIVE ValueAt(_, _)
ValueAt(s, n) ==
    IF n = 0 THEN Fp(0)
    ELSE FpAdd(ValueAt(s, n - 1),
               FpMul(Fp(Sign(curve.legs[n])),
                     FpMul(Fp(curve.legs[n].multiplier), Intrinsic(curve.legs[n], s))))

\* C19: at each sampled price s the pnl of the curve is the sum over the legs of
\* sign * multiplier * intrinsic, less the cost basis.
C19_PnlIsPayoffLessCostBasis ==
    \A n \in DOMAIN curve_out :
        \A s \in {curve_out[n][1]} :
            curve_out[n][2] = FpSub(ValueAt(s, Len(curve.legs)), curve.cost_basis)

\* C19 witness: two short Puts of the strike 4 for a cost basis of -2 are worth -2 at
\* the price 2 (value -2 * 2 = -4), and 2 at the price 6.
C19_Witness ==
    /\ CurveReturned
    /\ curve.legs = <<PositionLeg(20260320, Fp(4), "P", SELL, 2)>>
    /\ curve.cost_basis = Fp(0 - 2)
    /\ curve.s_min = Fp(2) /\ curve.s_max = Fp(6) /\ curve.steps = 1
    /\ curve_out = << <<Fp(2), Fp(0 - 2)>>, <<Fp(6), Fp(2)>> >>

---------------------------------------------------------------------------
(* Claims about the worker's request queue.                                *)

\* The requests for quotes waiting in the queue, oldest first.
PendingRequests == SelectSeq(request_queue, LAMBDA x : ~IsStop(x))

\* The number of calls of request_refresh that have put their list on the queue.
Submitted == IF refresh.pc = "idle" THEN calls.requests ELSE calls.requests - 1

\* C20: whatever calls of request_refresh and stop were made and however far the
\* worker has come, the queue holds at most one request for quotes, which is the one
\* submitted last; the queue is never longer than that request and the stop markers.
C20_AtMostTheLatestRequestPending ==
    /\ Len(PendingRequests) <= 1
    /\ \A i \in DOMAIN PendingRequests : PendingRequests[i].id = Submitted
    /\ Len(request_queue) + Len(refresh.drained) <= 1 + calls.stops

\* C20 witness: while the worker is busy with the first request, the second was
\* superseded by the third, which is the only one in the queue.
C20_Witness ==
    /\ worker = [pc |-> "busy", id |-> 1]
    /\ calls.requests = 3
    /\ refresh.pc = "idle"
    /\ Len(request_queue) = 1
    /\ request_queue[1].id = 3

---------------------------------------------------------------------------
(* Claims about the quotes and totals the window shows.                    *)

SameKeysAt(a, b) ==
    /\ Len(a) = Len(b)
    /\ \A i \in 1..Len(a) : LegKey(a[i]) = LegKey(b[i])

\* The step in which the window handles the reply to the request taken.
QuotesArrive == taken # <<>> /\ taken' = <<>> /\ status'.last = "quotes"

\* The totals a worker can have computed for the legs ls.
WorkerTotals(ls) ==
    {Totals(r.lazy, r.smart, ls) :
        r \in {resolve_quotes(ls, market) : market \in [1..Len(ls) -> QuotePairs]}}

QuotesFail == taken # <<>> /\ taken' = <<>> /\ status'.last = "error"

\* C26: a failed quote request changes the status line only: the legs, the Bid/Ask
\* cells and the connected status stay, and the worker is back at its queue
\* (not ended, no stop asked for), ready for the next request.
C26_QuoteErrorOnlyInStatusLine ==
    [][QuotesFail =>
         /\ legs' = legs
         /\ table' = table
         /\ status.connected /\ status'.connected
         /\ status'.line = "error"
         /\ worker'.pc = "waiting"
         /\ request_queue' = request_queue
         /\ \A i \in 1..Len(request_queue') : ~IsStop(request_queue'[i])]_vars

\* After a failed request the window still shows its legs with their bid/ask and
\* is connected, and the worker has taken the next request.
C26_Witness ==
    /\ status.line = "error"
    /\ status.connected
    /\ legs # <<>>
    /\ \A i \in 1..Len(table) : table[i] # NoCells
    /\ worker.pc = "waiting"
    /\ taken # <<>>

---------------------------------------------------------------------------
(* Claims about the IBKR supplier.                                         *)

\* C22: every quote of the IBKR supplier has a bid, an ask and a last that are not
\* negative (and finite), whatever the ticker reports: None, NaN, an infinity, the
\* -1 sentinel, another negative number or a non-negative number.
C22_SanitizedFieldsAreNonNegative ==
    quotes.stage = "done" =>
        \A k \in DOMAIN quotes.chain : /\ quotes.chain[k].bid >= 0
                                       /\ quotes.chain[k].ask >= 0
                                       /\ quotes.chain[k].last >= 0

\* The contract of a leg, and whether Interactive Brokers knows it.
ContractOf(leg) == <<leg.expiration, leg.strike, Upper(leg.right)>>
InBook(leg) ==
    \E i \in DOMAIN lookup.chains[leg.expiration] :
       ContractOf(lookup.chains[leg.expiration][i]) = ContractOf(leg)

\* The contracts of the legs picked by Test, in the order of the legs.
ContractsWhere(Test(_)) ==
    LET picked == SelectSeq(lookup.legs, Test)
    IN [k \in DOMAIN picked |-> ContractOf(picked[k])]

\* C27: a call of the IBKR lookup makes one ticker request for exactly the
\* contracts of the legs whose expiration the supplier knows, and none when there
\* is no such leg.
C27_OneRequestForLegsOfKnownExpirations ==
    quotes.stage = "done" =>
        LET wanted == ContractsWhere(LAMBDA leg : leg.expiration \in lookup.known)
        IN quotes.requests = IF wanted = <<>> THEN <<>> ELSE <<wanted>>

\* C27, amended: the one ticker request is for exactly the contracts of the legs
\* whose expiration the supplier knows and which Interactive Brokers qualifies, and
\* there is none when there is no such leg.
C27_OneRequestForQualifiedLegs ==
    quotes.stage = "done" =>
        LET wanted == ContractsWhere(LAMBDA leg : leg.expiration \in lookup.known /\ InBook(leg))
        IN /\ Len(quotes.requests) <= 1
           /\ quotes.requests = IF wanted = <<>> THEN <<>> ELSE <<wanted>>

\* One request for two contracts, made for three legs: a leg of a known
\* expiration is left out because its contract does not qualify.
C27_Witness ==
    /\ quotes.stage = "done"
    /\ Len(lookup.legs) = 3
    /\ \A i \in 1..Len(lookup.legs) : lookup.legs[i].expiration \in lookup.known
    /\ Len(quotes.requests) = 1
    /\ Len(quotes.requests[1]) = 2


---------------------------------------------------------------------------
(* Claims about the repository and the collector.                          *)

\* The reply row of a quote inserted at snapshot time t.
HistoryRowOf(ins) == <<ins[2], ins[1].bid, ins[1].ask, ins[1].last>>

\* The quotes inserted so far that are of the contract the last query asked for.
InsertedOfAsked ==
    {i \in DOMAIN db.inserted :
        /\ db.inserted[i][1].expiration = db.query[1].expiration
        /\ db.inserted[i][1].strike = db.query[1].strike
        /\ Upper(db.inserted[i][1].right) = Upper(db.query[1].option_type)}

\* The last query was made with the (expiration, strike, right) of the quote.
AskedFor(q) ==
    /\ db.query[1].expiration = q.expiration
    /\ db.query[1].strike = q.strike
    /\ db.query[1].option_type = q.right

HistoryAscending ==
    \A a, b \in DOMAIN db.history : a < b => db.history[a][1] <= db.history[b][1]

\* Every row of the reply is the row of its own inserted quote of the asked contract.
HistoryOnlyOfAsked ==
    \E f \in [DOMAIN db.history -> InsertedOfAsked] :
        /\ \A a, b \in DOMAIN db.history : a # b => f[a] # f[b]
        /\ \A k \in DOMAIN db.history : db.history[k] = HistoryRowOf(db.inserted[f[k]])

HistoryHolds(Covered(_)) ==
    \A i \in DOMAIN db.inserted :
        AskedFor(db.inserted[i][1]) /\ Covered(db.inserted[i][1])
            => \E k \in DOMAIN db.history : db.history[k] = HistoryRowOf(db.inserted[i])

AnyQuote(q) == TRUE
ComparableRight(q) == q.right = Upper(q.right) \/ ~db.case_sensitive

CallReturned == collector.call # NoCall /\ ~collector.call[1].raised

ListedDates == {collector.listed[i] : i \in DOMAIN collector.listed}

\* The listed expirations that are not before the day of the last call.
FutureListed == {e \in ListedDates : e >= collector.call[1].today}

Earliest(S) == CHOOSE e \in S : \A f \in S : e <= f

\* The rows of one snapshot of a chain taken at time t.
SnapshotOf(quote_chain, t) == [i \in DOMAIN quote_chain |-> SnapshotRow(quote_chain[i], t)]

\* C23: collect_once with an explicit expiration that the supplier lists
\* fetches the chain of that expiration and no other, appends it to the table
\* as one snapshot and returns the number of its quotes, whatever the day.
C23_ExplicitListedExpirationIsCollected ==
    (/\ CallReturned
     /\ collector.expiration # NoExpiration
     /\ collector.expiration[1] \in ListedDates)
    => LET c == collector.call[1]
           explicit_chain == c.market[collector.expiration[1]]
       IN  /\ c.fetched = <<collector.expiration[1]>>
           /\ c.ret = <<Len(explicit_chain)>>
           /\ db.rows = c.rows_before \o SnapshotOf(explicit_chain, c.snapshot_utc)

\* C28 (as stated): a call that returns has fetched exactly one chain, and
\* without an expiration, or with one the supplier does not list, that chain
\* is the one of the earliest listed expiration not before today.
C28_OneChainOfNextFutureExpiration ==
    CallReturned =>
        /\ Len(collector.call[1].fetched) = 1
        /\ (collector.expiration = NoExpiration \/ collector.expiration[1] \notin ListedDates)
               => /\ FutureListed # {}
                  /\ collector.call[1].fetched = <<Earliest(FutureListed)>>

\* C28 (amended): a call that returns has fetched at most one chain; without
\* an expiration, or with one the supplier does not list, it has fetched the
\* chain of the earliest listed expiration not before today, and no chain
\* when no listed expiration is on or after today.
C28_AtMostOneChainOfNextFutureExpiration ==
    CallReturned =>
        /\ Len(collector.call[1].fetched) <= 1
        /\ (collector.expiration = NoExpiration \/ collector.expiration[1] \notin ListedDates)
               => collector.call[1].fetched =
                      (IF FutureListed = {} THEN <<>> ELSE <<Earliest(FutureListed)>>)

\* An unlisted expiration was asked for on a day after the first listed
\* expiration; the chain of the second, the next future one, was fetched.
C28_Witness ==
    /\ CallReturned
    /\ collector.expiration = <<20260320>>
    /\ collector.listed = <<20260116, 20260220>>
    /\ collector.call[1].today = 20260201
    /\ collector.call[1].fetched = <<20260220>>
    /\ collector.call[1].ret = <<2>>

C30_EveryCycleIsFollowedByAnother ==
    (collector.call # NoCall /\ collector.pc # "collecting")
        ~> (collector.pc \in {"collecting", "interrupted"})

\* collect_once is being called again after a cycle that failed.
C30_Witness ==
    /\ collector.pc = "collecting"
    /\ collector.call # NoCall /\ collector.call[1].raised

\* The number of calls of `name` the collector loop has made.
CallsOf(name) == Cardinality({i \in DOMAIN collector.log : collector.log[i] = name})

\* C31: the collector loop calls ensure_schema, then connect, then runs its
\* cycles; every cycle is made after connect has returned and before
\* disconnect; once the loop has been left after connect returned,
\* disconnect has been called exactly once, and never otherwise.
C31_ConnectCyclesDisconnectOnce ==
    /\ \E n \in 0..3 : collector.log = SubSeq(<<"ensure_schema", "connect", "disconnect">>, 1, n)
    /\ collector.call # NoCall => collector.call[1].during = <<"ensure_schema", "connect">>
    /\ collector.pc \in {"collecting", "sleeping"} => collector.log = <<"ensure_schema", "connect">>
    /\ collector.pc = "interrupted" => CallsOf("connect") = 1 /\ CallsOf("disconnect") = 1
    /\ collector.pc = "crashed" => CallsOf("disconnect") = 0 /\ collector.call = NoCall

\* The loop was interrupted after a cycle that stored a chain.
C31_Witness ==
    /\ collector.pc = "interrupted"
    /\ collector.log = <<"ensure_schema", "connect", "disconnect">>
    /\ collector.call # NoCall /\ ~collector.call[1].raised
    /\ db.rows # <<>>

---------------------------------------------------------------------------
(* Claims about stopping the worker.                                       *)

\* The positions of the stop markers in the queue.
StopsQueued == {i \in DOMAIN request_queue : IsStop(request_queue[i])}

\* The request with this id was submitted by a call made after the first stop().
SubmittedAfterStop(id) == calls.first_stop # <<>> /\ id > calls.first_stop[1]

\* While the worker is in its loop after stop(), a marker is in the queue or
\* held by the request_refresh under way.
MarkerKept ==
    calls.first_stop # <<>> /\ worker.pc # "exited"
        => StopsQueued # {} \/ refresh.drained # <<>>

\* Between the calls of request_refresh every request submitted after stop()
\* waits behind a marker.
MarkerAhead ==
    calls.first_stop # <<>> /\ worker.pc # "exited" /\ refresh.pc = "idle"
        => \A i \in DOMAIN request_queue :
               SubmittedAfterStop(request_queue[i].id) => \E j \in StopsQueued : j < i

---------------------------------------------------------------------------
(* Claims about the number of workers.                                     *)

\* The worker threads whose run has not returned, and those whose supplier
\* holds a broker connection.
RunningWorkers == {i \in DOMAIN conn.threads : isRunning(conn.threads[i])}
BrokerConnections == {i \in DOMAIN conn.threads : conn.threads[i].broker}

---------------------------------------------------------------------------
(* Claims about the chart.                                                 *)

\* C34: whenever the window calls pnl_at_expiry_curve for a non-empty
\* position, the bounds it passes satisfy s_min < s_max, where s_min is
\* max(4000, lowest strike - 400) and s_max is min(10000, highest strike + 400).
C34_ChartBoundsAreOrdered ==
    curve_pc = "call" =>
        /\ curve.legs = legs /\ legs # <<>>
        /\ curve.s_min = Max2(8000, min_strike(legs) - 800)
        /\ curve.s_max = Min2(20000, max_strike(legs) + 800)
        /\ curve.s_min < curve.s_max

---------------------------------------------------------------------------
(* Claims about netting and the payoff.                                    *)

\* The payoff of one leg at the price p, and the value of the legs l, in exact
\* arithmetic.
ExactPayoff(leg, p) ==
    SignedNet(leg.action, leg.multiplier)
        * (IF Upper(leg.right) = "C" THEN Max2(0, p - leg.strike) ELSE Max2(0, leg.strike - p))

RECURSIVE ExactValue(_, _)
ExactValue(l, p) == IF l = <<>> THEN 0 ELSE ExactPayoff(Head(l), p) + ExactValue(Tail(l), p)

RECURSIVE SumOfAbsPayoffs(_, _)
SumOfAbsPayoffs(l, p) ==
    IF l = <<>> THEN 0 ELSE Abs(ExactPayoff(Head(l), p)) + SumOfAbsPayoffs(Tail(l), p)

\* v is within the rounding of the n = Len(l) products and additions of the
\* exact value of l at p: |v - exact| <= n*u/(1 - n*u) * sum |payoff|, u = 2^-MantissaBits.
WithinPayoffRounding(v, l, p) ==
    Abs(FpVal(v) - ExactValue(l, p)) * (2^MantissaBits - Len(l)) <= Len(l) * SumOfAbsPayoffs(l, p)

\* No product and no addition of the value of l at p is rounded.
IsFloat(n) == FpVal(Fp(n)) = n
ComputedExactly(l, p) ==
    \A n \in 1..Len(l) : IsFloat(ExactPayoff(l[n], p)) /\ IsFloat(ExactValue(SubSeq(l, 1, n), p))

\* C35 as stated: after any sequence of add-leg operations, at every price the
\* value of the netted position equals the sum of the payoffs of the legs as added.
C35_NettingPreservesPayoff ==
    \A p \in NetPrices : position_value(legs, Fp(p)) = position_value(added, Fp(p))

\* C35, amended: after any sequence of add-leg operations, at every price the
\* netted position and the legs as added have the same value in exact arithmetic,
\* each computed value is within float rounding of it, and the two computed
\* values are equal whenever neither sum is rounded.
C35_NettingPreservesPayoffUpToRounding ==
    \A p \in NetPrices :
        /\ ExactValue(legs, p) = ExactValue(added, p)
        /\ WithinPayoffRounding(position_value(legs, Fp(p)), legs, p)
        /\ WithinPayoffRounding(position_value(added, Fp(p)), added, p)
        /\ (ComputedExactly(legs, p) /\ ComputedExactly(added, p))
              => position_value(legs, Fp(p)) = position_value(added, Fp(p))

\* C35 witness: legs were added of which two were netted into one, and at
\* some price the two computed values differ.
C35_Witness ==
    /\ Len(added) = MaxAdded /\ legs # <<>> /\ Len(legs) < Len(added)
    /\ \E p \in NetPrices : position_value(legs, Fp(p)) # position_value(added, Fp(p))

---------------------------------------------------------------------------
(* Claims about the lazy-bot price as the worst-case fill.                 *)

\* Every leg of the list l is quoted with 0 <= bid <= ask; every leg of l has
\* the action a.
QuotedInOrder(l) == \A i \in 1..Len(l) : 0 <= l[i][2] /\ l[i][2] <= l[i][3]
OnlyAction(l, a) == \A i \in 1..Len(l) : l[i][1].action = a

\* C36: for every resolved list in which each leg has 0 <= bid <= ask, the lazy
\* total is at least the smart total; it is at least 0 for a list of Buy legs
\* only and at most 0 for a list of Sell legs only.
C36_LazyIsWorstCaseFill ==
    (pc = "done" /\ QuotedInOrder(resolved)) =>
        /\ lazy >= smart
        /\ OnlyAction(resolved, BUY) => lazy >= 0
        /\ OnlyAction(resolved, SELL) => lazy <= 0

\* C36 witness: the totals of a full list of Sell legs are computed: the lazy
\* total is a credit and above the smart total.
C36_Witness ==
    /\ pc = "done" /\ QuotedInOrder(resolved)
    /\ Len(resolved) = MaxResolved /\ OnlyAction(resolved, SELL)
    /\ lazy < 0 /\ lazy > smart

====
